---- MODULE Spec2Model ----
(***************************************************************************)
(* The "chamados" REST API: the six route handlers of server.js and its    *)
(* two sibling revisions (part_001: the first server.js, part_002: the     *)
(* router chamados.routes.js), running against the Chamados table as      *)
(* banco.sql creates and fills it.                                         *)
(*                                                                         *)
(* A request is handled in two synchronous parts separated by the single   *)
(* await of pool.query: the part before the await validates and issues one *)
(* statement (Receive), the store then executes it or fails (StoreExec,    *)
(* StoreFail), and the continuation maps the outcome to a response         *)
(* (Resume).                                                               *)
(*                                                                         *)
(* JavaScript strings are sequences of characters, so that Number(...)     *)
(* and PostgreSQL's integer input can be computed on them.  A character is *)
(* a string: itself when it is a printable ASCII character or one of "\t", *)
(* "\n", "\f", "\r", and otherwise the name of its code point, as in       *)
(* "U+00E9" or "U+2003".  In a message written as one string a code point  *)
(* outside ASCII is written in braces, as in "n{U+00E3}o".                 *)
(***************************************************************************)
EXTENDS Integers, Sequences, FiniteSets, TLC

\* ------------------------------------------------------------------------
\* Bounds of the model
\* ------------------------------------------------------------------------

\* The requests of an execution: a further request is not taken.
MaxRequests == 2

\* ------------------------------------------------------------------------
\* Digit sequences
\* ------------------------------------------------------------------------

\* Largest value of PostgreSQL's INTEGER (int4), the type of Chamados.id
\* (SERIAL) and Chamados.Usuarios_id.
Int4Max == 2147483647

Digits == {"0", "1", "2", "3", "4", "5", "6", "7", "8", "9"}

\* The value of a digit; the letters are the digits of radix 16.
DigitVal(ch) ==
    CASE ch = "0" -> 0 [] ch = "1" -> 1 [] ch = "2" -> 2 [] ch = "3" -> 3
      [] ch = "4" -> 4 [] ch = "5" -> 5 [] ch = "6" -> 6 [] ch = "7" -> 7
      [] ch = "8" -> 8 [] ch = "9" -> 9
      [] ch \in {"a", "A"} -> 10 [] ch \in {"b", "B"} -> 11
      [] ch \in {"c", "C"} -> 12 [] ch \in {"d", "D"} -> 13
      [] ch \in {"e", "E"} -> 14 [] ch \in {"f", "F"} -> 15

DigitChar(d) ==
    CASE d = 0 -> "0" [] d = 1 -> "1" [] d = 2 -> "2" [] d = 3 -> "3"
      [] d = 4 -> "4" [] d = 5 -> "5" [] d = 6 -> "6" [] d = 7 -> "7"
      [] d = 8 -> "8" [] d = 9 -> "9"

RECURSIVE NatDigits(_)
NatDigits(i) ==
    IF i = 0 THEN <<>> ELSE NatDigits(i \div 10) \o <<DigitChar(i % 10)>>

AllDigits(s) == \A i \in 1..Len(s) : s[i] \in Digits

\* The first index in lo..hi whose character is in set, or 0.
RECURSIVE FirstIn(_, _, _, _)
FirstIn(s, set, lo, hi) ==
    IF lo > hi THEN 0
    ELSE IF lo = hi THEN (IF s[lo] \in set THEN lo ELSE 0)
    ELSE LET mid == (lo + hi) \div 2
             l == FirstIn(s, set, lo, mid)
         IN IF l # 0 THEN l ELSE FirstIn(s, set, mid + 1, hi)

\* The first index in lo..hi whose character is not in set, or 0.
RECURSIVE FirstOutside(_, _, _, _)
FirstOutside(s, set, lo, hi) ==
    IF lo > hi THEN 0
    ELSE IF lo = hi THEN (IF s[lo] \in set THEN 0 ELSE lo)
    ELSE LET mid == (lo + hi) \div 2
             l == FirstOutside(s, set, lo, mid)
         IN IF l # 0 THEN l ELSE FirstOutside(s, set, mid + 1, hi)

\* The last index in lo..hi whose character is not in set, or 0.
RECURSIVE LastOutside(_, _, _, _)
LastOutside(s, set, lo, hi) ==
    IF lo > hi THEN 0
    ELSE IF lo = hi THEN (IF s[lo] \in set THEN 0 ELSE lo)
    ELSE LET mid == (lo + hi) \div 2
             r == LastOutside(s, set, mid + 1, hi)
         IN IF r # 0 THEN r ELSE LastOutside(s, set, lo, mid)

\* The first index in lo..hi at which s and t differ, or 0.
RECURSIVE FirstDiff(_, _, _, _)
FirstDiff(s, t, lo, hi) ==
    IF lo > hi THEN 0
    ELSE IF lo = hi THEN (IF s[lo] = t[lo] THEN 0 ELSE lo)
    ELSE LET mid == (lo + hi) \div 2
             l == FirstDiff(s, t, lo, mid)
         IN IF l # 0 THEN l ELSE FirstDiff(s, t, mid + 1, hi)

\* s without its leading, and without its trailing, characters of set.
StripLeft(s, set) ==
    LET p == FirstOutside(s, set, 1, Len(s))
    IN IF p = 0 THEN <<>> ELSE SubSeq(s, p, Len(s))

StripRight(s, set) == SubSeq(s, 1, LastOutside(s, set, 1, Len(s)))

StripLeadingZeros(s) == StripLeft(s, {"0"})
StripTrailingZeros(s) == StripRight(s, {"0"})

\* The number of leading zeros of s.
LeadingZeros(s) == Len(s) - Len(StripLeadingZeros(s))

\* k times the character ch.
Repeat(ch, k) == [i \in 1..k |-> ch] \o <<>>
Zeros(k) == Repeat("0", k)

\* The value of a digit sequence in the radix, or -1 when it exceeds
\* Int4Max.
RECURSIVE DigitsValue(_, _, _)
DigitsValue(s, radix, acc) ==
    IF s = <<>> THEN acc
    ELSE LET d == DigitVal(s[1]) IN
         IF acc > (Int4Max - d) \div radix THEN -1
         ELSE DigitsValue(Tail(s), radix, acc * radix + d)

\* ------------------------------------------------------------------------
\* Exact decimals and their rounding to IEEE 754 double precision
\* ------------------------------------------------------------------------

\* A non-negative decimal: the digits before and after the point, without
\* leading and trailing zeros.
Dec(ip, fr) == [ip |-> StripLeadingZeros(ip), fr |-> StripTrailingZeros(fr)]

\* The decimal 0.d1 d2 ... dk times ten to the n.
Place(d, n) ==
    IF n >= Len(d) THEN Dec(d \o Zeros(n - Len(d)), <<>>)
    ELSE IF n > 0 THEN Dec(SubSeq(d, 1, n), SubSeq(d, n + 1, Len(d)))
    ELSE Dec(<<>>, Zeros(-n) \o d)

\* The significant digits of x, and the n with x = 0.digits times ten to n.
Significant(x) == StripTrailingZeros(StripLeadingZeros(x.ip \o x.fr))
Magnitude(x) == IF x.ip # <<>> THEN Len(x.ip) ELSE -LeadingZeros(x.fr)

\* x < y
DecLess(x, y) ==
    LET Lower(s, t, d) == d # 0 /\ DigitVal(s[d]) < DigitVal(t[d])
        Compared(s, t) == Lower(s, t, FirstDiff(s, t, 1, Len(s)))
        Padded(n) == Compared(x.ip \o x.fr \o Zeros(n - Len(x.fr)),
                              y.ip \o y.fr \o Zeros(n - Len(y.fr)))
    IN IF Len(x.ip) # Len(y.ip) THEN Len(x.ip) < Len(y.ip)
       ELSE Padded(IF Len(x.fr) > Len(y.fr) THEN Len(x.fr) ELSE Len(y.fr))

\* Twice the integer written by the digits s, in Len(s) + 1 digits: a digit
\* takes a carry exactly when the digit to its right is 5 or more.
Double(s) ==
    [i \in 1..(Len(s) + 1) |->
       DigitChar(((IF i = 1 THEN 0 ELSE 2 * DigitVal(s[i - 1]))
                  + (IF i <= Len(s) /\ DigitVal(s[i]) >= 5 THEN 1 ELSE 0)) % 10)]
    \o <<>>

\* Half of ten times the integer written by the digits s, in Len(s) + 1
\* digits: a digit takes 5 exactly when the digit to its left is odd.
Half(s) ==
    [i \in 1..(Len(s) + 1) |->
       DigitChar((IF i <= Len(s) THEN DigitVal(s[i]) \div 2 ELSE 0)
                 + (IF i > 1 /\ DigitVal(s[i - 1]) % 2 = 1 THEN 5 ELSE 0))]
    \o <<>>

\* The integer written by s plus one, and (for s above zero) minus one.
Succ(s) ==
    LET Carried(p) ==
            IF p = 0 THEN <<"1">> \o Zeros(Len(s))
            ELSE SubSeq(s, 1, p - 1) \o <<DigitChar(DigitVal(s[p]) + 1)>>
                 \o Zeros(Len(s) - p)
    IN Carried(LastOutside(s, {"9"}, 1, Len(s)))

Pred(s) ==
    LET Borrowed(p) ==
            SubSeq(s, 1, p - 1) \o <<DigitChar(DigitVal(s[p]) - 1)>>
            \o Repeat("9", Len(s) - p)
    IN Borrowed(LastOutside(s, {"0"}, 1, Len(s)))

\* x times two to the k (k of either sign).
RECURSIVE Scale2(_, _)
Scale2(x, k) ==
    LET Doubled(d) ==
            Dec(SubSeq(d, 1, Len(x.ip) + 1), SubSeq(d, Len(x.ip) + 2, Len(d)))
        Halved(h) ==
            Dec(SubSeq(h, 1, Len(x.ip)), SubSeq(h, Len(x.ip) + 1, Len(h)))
        InTwo(j) == Scale2(Scale2(x, j), k - j)
    IN IF (x.ip = <<>> /\ x.fr = <<>>) \/ k = 0 THEN x
       ELSE IF k = 1 THEN Doubled(Double(x.ip \o x.fr))
       ELSE IF k = -1 THEN Halved(Half(x.ip \o x.fr))
       ELSE InTwo(IF k > 0 THEN k \div 2 ELSE -((-k) \div 2))

\* 2^52 and 2^53: a double's significand m has 2^52 <= m < 2^53, or is
\* smaller with the least exponent (a subnormal).
Pow52 == <<"4", "5", "0", "3", "5", "9", "9", "6", "2", "7", "3", "7", "0",
           "4", "9", "6">>
Pow53 == <<"9", "0", "0", "7", "1", "9", "9", "2", "5", "4", "7", "4", "0",
           "9", "9", "2">>

\* The exponents of the least and of the greatest finite double, as
\* m * 2^e.
MinExp == -1074
MaxExp == 971

IntLess(s, t) == DecLess(Dec(s, <<>>), Dec(t, <<>>))

\* x (at least 2^52) divided by the greatest power of two that leaves it
\* at least 2^52; k runs through 512, 256, ..., 1.  The division is not
\* tried where it surely leaves less: x is below ten to the number of its
\* integer digits, 2^k is at least 10^(3 * (k \div 10)), and 10^15 is below
\* 2^52.
RECURSIVE ScaleDown(_, _, _)
ScaleDown(x, e, k) ==
    LET Divided(y) ==
            IF ~IntLess(y.ip, Pow52) THEN ScaleDown(y, e + k, k \div 2)
            ELSE ScaleDown(x, e, k \div 2)
    IN IF k = 0 THEN [x |-> x, e |-> e]
       ELSE IF Len(x.ip) - 3 * (k \div 10) <= 15 THEN ScaleDown(x, e, k \div 2)
       ELSE Divided(Scale2(x, -k))

\* x (below 2^52) times the greatest power of two that leaves it below
\* 2^53 and the exponent at MinExp or above; k runs through 1024, ..., 1.
\* The product is not tried where it surely is too great: x is at least
\* ten to its magnitude less one, and 10^16 is above 2^53.
RECURSIVE ScaleUp(_, _, _)
ScaleUp(x, e, k) ==
    LET Multiplied(y) ==
            IF IntLess(y.ip, Pow53) THEN ScaleUp(y, e - k, k \div 2)
            ELSE ScaleUp(x, e, k \div 2)
    IN IF k = 0 THEN [x |-> x, e |-> e]
       ELSE IF e - k < MinExp \/ Magnitude(x) - 1 + 3 * (k \div 10) >= 16
       THEN ScaleUp(x, e, k \div 2)
       ELSE Multiplied(Scale2(x, k))

\* The integer nearest to x, ties to even.
RoundHalfEven(x) ==
    LET odd == x.ip # <<>> /\ DigitVal(x.ip[Len(x.ip)]) % 2 = 1
        up == /\ x.fr # <<>>
              /\ \/ DigitVal(x.fr[1]) > 5
                 \/ x.fr[1] = "5" /\ (Len(x.fr) > 1 \/ odd)
    IN IF up THEN StripLeadingZeros(Succ(x.ip)) ELSE x.ip

\* The double nearest to the decimal x (0 < x < 10^309), ties to even, as
\* significand and exponent: x rounds to m * 2^e.  m is <<>> when x rounds
\* to zero, and e exceeds MaxExp when x rounds to infinity.
NearestDouble(x) ==
    LET Carried(m, e) ==
            IF m = Pow53 THEN [m |-> Pow52, e |-> e + 1] ELSE [m |-> m, e |-> e]
        Scaled(s) == Carried(RoundHalfEven(s.x), s.e)
    IN Scaled(IF IntLess(x.ip, Pow52) THEN ScaleUp(x, 0, 1024)
              ELSE ScaleDown(x, 0, 512))

\* The decimal c rounds to the double between the midpoints lo and hi to its
\* neighbours; the midpoints themselves do exactly when its significand is
\* even.
Within(c, lo, hi, even) ==
    /\ ~DecLess(c, lo) /\ ~DecLess(hi, c)
    /\ even \/ (c # lo /\ c # hi)

\* The decimal 0.sv times ten to the n cut to k digits, rounded down and up.
Floor(sv, n, k) == Place(SubSeq(sv, 1, k), n)

Ceil(sv, n, k) ==
    LET Carried(t) == Place(t, IF Len(t) > k THEN n + 1 ELSE n)
    IN Carried(Succ(SubSeq(sv, 1, k)))

\* The decimal is nearer to Ceil than to Floor (ties to even).
CeilNearer(sv, k) ==
    /\ Len(sv) > k
    /\ \/ DigitVal(sv[k + 1]) > 5
       \/ sv[k + 1] = "5" /\ (Len(sv) > k + 1 \/ DigitVal(sv[k]) % 2 = 1)

\* k digits suffice to name the double.
Suffice(sv, n, lo, hi, even, k) ==
    \/ k >= Len(sv)
    \/ Within(Floor(sv, n, k), lo, hi, even)
    \/ Within(Ceil(sv, n, k), lo, hi, even)

Least(S) == CHOOSE i \in S : \A j \in S : i <= j

\* Of the decimals f and c, the one that rounds to the double, and the
\* nearer one when both do.
Candidates(f, c, lo, hi, even, ceilNearer) ==
    LET Nearer(fOk, cOk) ==
            IF fOk /\ cOk THEN (IF ceilNearer THEN c ELSE f)
            ELSE IF fOk THEN f ELSE c
    IN Nearer(Within(f, lo, hi, even), Within(c, lo, hi, even))

\* The value v (significant digits sv, point at n) written with k digits.
Cut(v, sv, n, lo, hi, even, k) ==
    IF k >= Len(sv) THEN v
    ELSE Candidates(Floor(sv, n, k), Ceil(sv, n, k), lo, hi, even,
                    CeilNearer(sv, k))

Shortest(v, sv, n, lo, hi, even) ==
    Cut(v, sv, n, lo, hi, even,
        Least({k \in 1..17 : Suffice(sv, n, lo, hi, even, k)}))

Between(v, lo, hi, even) ==
    Shortest(v, Significant(v), Magnitude(v), lo, hi, even)

\* The decimal with the fewest significant digits that rounds to the double
\* m * 2^e, and among those the one nearest to it (ties to even): the digits
\* Number::toString writes.  The lower neighbour of a power of two is half
\* as far away as the upper one.
ShortestDecimal(m, e) ==
    Between(Scale2(Dec(m, <<>>), e),
            IF m = Pow52 /\ e > MinExp
            THEN Scale2(Dec(Pred(Double(Double(m))), <<>>), e - 2)
            ELSE Scale2(Dec(Pred(Double(m)), <<>>), e - 1),
            Scale2(Dec(Succ(Double(m)), <<>>), e - 1),
            DigitVal(m[Len(m)]) % 2 = 0)

\* ------------------------------------------------------------------------
\* JavaScript numbers and values
\* ------------------------------------------------------------------------

\* A JavaScript number (a double): NaN, an infinity, or a finite value
\* written as Number::toString finds its digits: a sign, the digits of the
\* integer part (no leading zeros, <<>> for 0) and the fractional digits (no
\* trailing zeros), the fewest digits that round to the double.
NaN == [nan |-> TRUE, inf |-> FALSE, neg |-> FALSE, ip |-> <<>>, fr |-> <<>>]

Infinity(neg) ==
    [nan |-> FALSE, inf |-> TRUE, neg |-> neg, ip |-> <<>>, fr |-> <<>>]

MkNum(neg, ip, fr) ==
    [nan |-> FALSE, inf |-> FALSE, neg |-> neg, ip |-> ip, fr |-> fr]

\* The integer i, and a decimal such as 1.5 (integer part, fractional digits).
IntNum(i) == MkNum(i < 0, NatDigits(IF i < 0 THEN -i ELSE i), <<>>)
DecNum(i, fr) == MkNum(i < 0, NatDigits(IF i < 0 THEN -i ELSE i), fr)

IsZero(n) == ~n.nan /\ ~n.inf /\ n.ip = <<>> /\ n.fr = <<>>

\* n <= 0 and n < 1 of JavaScript (both false for NaN).
LeZero(n) == ~n.nan /\ (IsZero(n) \/ n.neg)
LtOne(n) == ~n.nan /\ (n.neg \/ (~n.inf /\ n.ip = <<>>))

\* A JavaScript value: undefined, null, a boolean, a number or a string.
JsUndef == [t |-> "undefined", b |-> FALSE, n |-> NaN, s |-> <<>>]
JsNull == [t |-> "null", b |-> FALSE, n |-> NaN, s |-> <<>>]
JsBool(b) == [t |-> "boolean", b |-> b, n |-> NaN, s |-> <<>>]
JsNum(n) == [t |-> "number", b |-> FALSE, n |-> n, s |-> <<>>]
JsStr(s) == [t |-> "string", b |-> FALSE, n |-> NaN, s |-> s]

\* !v
Falsy(v) ==
    \/ v.t \in {"undefined", "null"}
    \/ v.t = "boolean" /\ ~v.b
    \/ v.t = "number" /\ (v.n.nan \/ IsZero(v.n))
    \/ v.t = "string" /\ v.s = <<>>

\* Number.isInteger(v)
NumberIsInteger(v) ==
    v.t = "number" /\ ~v.n.nan /\ ~v.n.inf /\ v.n.fr = <<>>

\* v ?? null
OrNull(v) == IF v.t = "undefined" THEN JsNull ELSE v

\* ------------------------------------------------------------------------
\* Number(string)
\* ------------------------------------------------------------------------

\* WhiteSpace and LineTerminator of ECMAScript: tab, line feed, vertical
\* tab, form feed, carriage return, space, no-break space, the byte order
\* mark, the other space separators (ogham space mark, U+2000 to U+200A,
\* narrow no-break space, medium mathematical space, ideographic space),
\* and the line and paragraph separators.
JsWhiteSpace ==
    {"\t", "\n", "U+000B", "\f", "\r", " ", "U+00A0", "U+1680",
     "U+2000", "U+2001", "U+2002", "U+2003", "U+2004", "U+2005", "U+2006",
     "U+2007", "U+2008", "U+2009", "U+200A", "U+2028", "U+2029", "U+202F",
     "U+205F", "U+3000", "U+FEFF"}

\* StrWhiteSpace is skipped on both sides.
Trim(s) == StripRight(StripLeft(s, JsWhiteSpace), JsWhiteSpace)

\* The number of the double nearest to the decimal 0.sig times ten to the
\* mag (sig the significant digits), with the sign: zero below half the
\* least double, infinity from 10^309 on.  A decimal of at most 15
\* significant digits well inside the range of the normal doubles is itself
\* the shortest decimal of the double it rounds to.
FromDouble(neg, b) ==
    LET Finite(d) == MkNum(neg, d.ip, d.fr)
    IN IF b.m = <<>> THEN MkNum(neg, <<>>, <<>>)
       ELSE IF b.e > MaxExp THEN Infinity(neg)
       ELSE Finite(ShortestDecimal(b.m, b.e))

RoundToNumber(neg, sig, mag) ==
    LET Finite(d) == MkNum(neg, d.ip, d.fr)
    IN IF sig = <<>> \/ mag < -324 THEN MkNum(neg, <<>>, <<>>)
       ELSE IF mag > 309 THEN Infinity(neg)
       ELSE IF Len(sig) <= 15 /\ mag >= -300 /\ mag <= 300
       THEN Finite(Place(sig, mag))
       ELSE FromDouble(neg, NearestDouble(Place(sig, mag)))

\* An unsigned decimal literal without exponent: digits, digits., .digits,
\* digits.digits.
IsDecimal(m) ==
    LET Parts(ip, fp) == AllDigits(ip) /\ AllDigits(fp) /\ Len(ip) + Len(fp) > 0
        Split(dot) == Parts(IF dot = 0 THEN m ELSE SubSeq(m, 1, dot - 1),
                            IF dot = 0 THEN <<>> ELSE SubSeq(m, dot + 1, Len(m)))
    IN Split(FirstIn(m, {"."}, 1, Len(m)))

\* An exponent part after the e: an optional sign and one or more digits.
IsExponent(x) ==
    LET Unsigned(d) == d # <<>> /\ AllDigits(d)
    IN Unsigned(IF x # <<>> /\ x[1] \in {"+", "-"} THEN Tail(x) ELSE x)

\* The value of an exponent part; beyond nine digits it is taken as 10^9,
\* which no mantissa that fits in memory brings back into the range of the
\* doubles.
ExponentValue(x) ==
    LET Signed(v) == IF x[1] = "-" THEN -v ELSE v
        Unsigned(d) ==
            Signed(IF Len(d) > 9 THEN 1000000000 ELSE DigitsValue(d, 10, 0))
    IN Unsigned(StripLeadingZeros(IF x[1] \in {"+", "-"} THEN Tail(x) ELSE x))

\* The digits of the radix of a literal 0b..., 0o... or 0x...
RadixOf(ch) ==
    CASE ch \in {"b", "B"} -> 2 [] ch \in {"o", "O"} -> 8
      [] ch \in {"x", "X"} -> 16 [] OTHER -> 0

RadixDigits(radix) ==
    CASE radix = 2 -> {"0", "1"}
      [] radix = 10 -> Digits
      [] radix = 8 -> {"0", "1", "2", "3", "4", "5", "6", "7"}
      [] radix = 16 -> Digits \cup {"a", "b", "c", "d", "e", "f",
                                    "A", "B", "C", "D", "E", "F"}
      [] OTHER -> {}

\* A NonDecimalIntegerLiteral: 0b, 0o or 0x and one or more digits of the
\* radix (no sign).
IsRadixLiteral(s) ==
    /\ Len(s) >= 3 /\ s[1] = "0" /\ RadixOf(s[2]) # 0
    /\ \A i \in 3..Len(s) : s[i] \in RadixDigits(RadixOf(s[2]))

\* The bits of a digit of radix 2, 8 or 16, most significant first.
BitsOf(ch, radix) ==
    LET v == DigitVal(ch)
        w == CASE radix = 2 -> 1 [] radix = 8 -> 3 [] radix = 16 -> 4
    IN [i \in 1..w |-> IF (v \div (2 ^ (w - i))) % 2 = 1 THEN "1" ELSE "0"]
       \o <<>>

\* acc * 2^(hi - lo + 1) plus the value of the digits lo..hi of s: for
\* each bit the decimal is doubled (its last digit is then even) and the
\* bit added.  A value of more than 400 digits is beyond every double and
\* is not computed further.
RECURSIVE RadixInto(_, _, _, _, _)
RadixInto(acc, s, radix, lo, hi) ==
    LET Added(d, bit) ==
            SubSeq(d, IF d[1] = "0" THEN 2 ELSE 1, Len(d) - 1)
            \o <<DigitChar(DigitVal(d[Len(d)]) + DigitVal(bit))>>
        Step(a, bit) == Added(Double(a), bit)
        Digit(b) ==
            IF radix = 2 THEN Step(acc, b[1])
            ELSE IF radix = 8 THEN Step(Step(Step(acc, b[1]), b[2]), b[3])
            ELSE Step(Step(Step(Step(acc, b[1]), b[2]), b[3]), b[4])
        Halves(mid) ==
            RadixInto(RadixInto(acc, s, radix, lo, mid), s, radix, mid + 1, hi)
    IN IF Len(acc) > 400 \/ lo > hi THEN acc
       ELSE IF lo = hi THEN Digit(BitsOf(s[lo], radix))
       ELSE Halves((lo + hi) \div 2)

\* A numeric literal read from a string: not a number, an infinity, or a
\* sign, digits and the place of the point after the first of them.
NotNumeric ==
    [nan |-> TRUE, inf |-> FALSE, neg |-> FALSE, digits |-> <<>>, point |-> 0]
InfinityLiteral(neg) ==
    [nan |-> FALSE, inf |-> TRUE, neg |-> neg, digits |-> <<>>, point |-> 0]
Numeral(neg, digits, point) ==
    [nan |-> FALSE, inf |-> FALSE, neg |-> neg, digits |-> digits,
     point |-> point]

\* StrDecimalLiteral: an optional sign (neg) and then u, Infinity or a
\* mantissa m with an optional exponent part x after the e at ePos.
DecimalLiteral(neg, u, m, x, ePos) ==
    LET Parts(ip, fp, e) == Numeral(neg, ip \o fp, Len(ip) + e)
        Split(dot, e) ==
            Parts(IF dot = 0 THEN m ELSE SubSeq(m, 1, dot - 1),
                  IF dot = 0 THEN <<>> ELSE SubSeq(m, dot + 1, Len(m)), e)
    IN IF u = <<"I", "n", "f", "i", "n", "i", "t", "y">>
       THEN InfinityLiteral(neg)
       ELSE IF ~IsDecimal(m) \/ (ePos # 0 /\ ~IsExponent(x)) THEN NotNumeric
       ELSE Split(FirstIn(m, {"."}, 1, Len(m)),
                  IF ePos = 0 THEN 0 ELSE ExponentValue(x))

\* StringNumericLiteral without the white space around it: empty (0), a
\* literal 0b/0o/0x, or a decimal literal; anything else is not a number.
StringNumericLiteral(s) ==
    LET Radix(d) == RadixInto(<<>>, d, RadixOf(s[2]), 1, Len(d))
        RadixLiteral(v) == Numeral(FALSE, v, Len(v))
        Mantissa(neg, u, ePos) ==
            DecimalLiteral(neg, u,
                           IF ePos = 0 THEN u ELSE SubSeq(u, 1, ePos - 1),
                           IF ePos = 0 THEN <<>> ELSE SubSeq(u, ePos + 1, Len(u)),
                           ePos)
        Signed(neg, u) == Mantissa(neg, u, FirstIn(u, {"e", "E"}, 1, Len(u)))
    IN IF s = <<>> THEN Numeral(FALSE, <<>>, 0)
       ELSE IF IsRadixLiteral(s)
       THEN RadixLiteral(Radix(StripLeadingZeros(SubSeq(s, 3, Len(s)))))
       ELSE Signed(s[1] = "-", IF s[1] \in {"+", "-"} THEN Tail(s) ELSE s)

\* The Number value of a literal: its mathematical value rounded to the
\* nearest double.
NumericValue(lit) ==
    IF lit.nan THEN NaN
    ELSE IF lit.inf THEN Infinity(lit.neg)
    ELSE RoundToNumber(lit.neg,
                       StripTrailingZeros(StripLeadingZeros(lit.digits)),
                       lit.point - LeadingZeros(lit.digits))

\* Number(s) for a string s, StringToNumber of ECMAScript: white space is
\* trimmed, the empty string is 0, then a literal 0b/0o/0x, or an optional
\* sign and Infinity or a decimal literal with an optional exponent; any
\* other string is NaN.
StringToNumber(str) == NumericValue(StringNumericLiteral(Trim(str)))

\* Number(v) for any value.
ToNumber(v) ==
    CASE v.t = "undefined" -> NaN
      [] v.t = "null" -> IntNum(0)
      [] v.t = "boolean" -> IntNum(IF v.b THEN 1 ELSE 0)
      [] v.t = "number" -> v.n
      [] v.t = "string" -> StringToNumber(v.s)

\* String(n), Number::toString of ECMAScript: with n the place of the point
\* (the value is 0.digits times ten to the n) plain digits for 0 < n <= 21,
\* "0." and zeros for -6 < n <= 0, and otherwise the exponent notation.
NumToString(num) ==
    LET Exponent(e) ==
            <<"e", IF e < 0 THEN "-" ELSE "+">>
            \o NatDigits(IF e < 0 THEN -e ELSE e)
        Written(sign, d, n, k) ==
            IF k <= n /\ n <= 21 THEN sign \o d \o Zeros(n - k)
            ELSE IF 0 < n /\ n <= 21
            THEN sign \o SubSeq(d, 1, n) \o <<".">> \o SubSeq(d, n + 1, k)
            ELSE IF -6 < n /\ n <= 0
            THEN sign \o <<"0", ".">> \o Zeros(-n) \o d
            ELSE IF k = 1 THEN sign \o d \o Exponent(n - 1)
            ELSE sign \o <<d[1], ".">> \o SubSeq(d, 2, k) \o Exponent(n - 1)
        Placed(sign, d, n) == Written(sign, d, n, Len(d))
        Finite(sign, x) == Placed(sign, Significant(x), Magnitude(x))
        Signed(sign) ==
            IF num.inf THEN sign \o <<"I", "n", "f", "i", "n", "i", "t", "y">>
            ELSE Finite(sign, Dec(num.ip, num.fr))
    IN IF num.nan THEN <<"N", "a", "N">>
       ELSE IF IsZero(num) THEN <<"0">>
       ELSE Signed(IF num.neg THEN <<"-">> ELSE <<>>)

\* ------------------------------------------------------------------------
\* The store: pg's parameter encoding and the Chamados table of banco.sql
\* ------------------------------------------------------------------------

\* A statement parameter as the driver sends it: SQL NULL for null and
\* undefined, otherwise the text of the value.
SqlNull == [null |-> TRUE, txt |-> <<>>]
SqlText(s) == [null |-> FALSE, txt |-> s]

PgParam(v) ==
    CASE v.t \in {"undefined", "null"} -> SqlNull
      [] v.t = "boolean" ->
           SqlText(IF v.b THEN <<"t", "r", "u", "e">>
                   ELSE <<"f", "a", "l", "s", "e">>)
      [] v.t = "number" -> SqlText(NumToString(v.n))
      [] v.t = "string" -> SqlText(v.s)

\* The characters isspace() takes for white space.
PgSpaces == {" ", "\t", "\n", "U+000B", "\f", "\r"}

\* The digits of 2^31 in the radix: the one magnitude only a negative
\* INTEGER has.
MinMagnitude(radix) ==
    CASE radix = 2 -> <<"1">> \o Zeros(31)
      [] radix = 8 -> <<"2">> \o Zeros(10)
      [] radix = 16 -> <<"8">> \o Zeros(7)
      [] OTHER -> NatDigits(Int4Max \div 10) \o <<"8">>

\* PostgreSQL's input conversion of a text to INTEGER: white space on both
\* sides, an optional sign, digits; a value outside the 32-bit range is an
\* error.  From PostgreSQL 16 on (extended) the digits may also be a 0b, 0o
\* or 0x numeral, and an underscore may stand before a digit (in a decimal
\* not before the first).
Int4In(txt, extended) ==
    LET IsDigit(ch) == ch # "_"
        Refused == [ok |-> FALSE, val |-> 0]
        WellFormed(body, radix) ==
            /\ body # <<>>
            /\ radix = 10 => body[1] # "_"
            /\ \A i \in 1..Len(body) :
                 \/ body[i] \in RadixDigits(radix)
                 \/ /\ extended /\ body[i] = "_"
                    /\ i < Len(body) /\ body[i + 1] \in RadixDigits(radix)
        Value(neg, v, min) ==
            IF v < 0 /\ ~min THEN Refused
            ELSE [ok |-> TRUE,
                  val |-> IF min THEN (-Int4Max) - 1 ELSE IF neg THEN -v ELSE v]
        Magnitude32(neg, d, radix) ==
            Value(neg, DigitsValue(d, radix, 0), neg /\ d = MinMagnitude(radix))
        Numbered(neg, body, radix) ==
            IF ~WellFormed(body, radix) THEN Refused
            ELSE Magnitude32(neg, StripLeadingZeros(SelectSeq(body, IsDigit)),
                             radix)
        InRadix(neg, u, radix) ==
            Numbered(neg, IF radix = 10 THEN u ELSE SubSeq(u, 3, Len(u)), radix)
        Signed(neg, u) ==
            InRadix(neg, u,
                    IF extended /\ Len(u) >= 2 /\ u[1] = "0" /\ RadixOf(u[2]) # 0
                    THEN RadixOf(u[2]) ELSE 10)
        Spaced(s) ==
            Signed(s # <<>> /\ s[1] = "-",
                   IF s # <<>> /\ s[1] \in {"+", "-"} THEN Tail(s) ELSE s)
    IN Spaced(StripRight(StripLeft(txt, PgSpaces), PgSpaces))

\* The ids of the rows of Usuarios (banco.sql inserts five users).
UsuariosIds == {1, 2, 3, 4, 5}

\* The values CHECK (estado IN ('a', 'f')) admits.
EstadosAdmitted == {<<"a">>, <<"f">>}

\* A text does not fit a CHAR(n) or VARCHAR(n) column: it is longer than n
\* even without its trailing spaces.
TooLong(txt, n) == Len(StripRight(txt, {" "})) > n

\* A text assigned to the CHAR(1) column estado: spaces beyond the length
\* are cut, the empty text is padded to one space.
Char1(txt) ==
    IF StripRight(txt, {" "}) = <<>> THEN <<" ">> ELSE StripRight(txt, {" "})

\* A text assigned to the VARCHAR(255) column urlImagem: spaces beyond the
\* length are cut.
Varchar255(txt) == IF Len(txt) > 255 THEN SubSeq(txt, 1, 255) ELSE txt

\* An identifier written without quotes is folded to lower case.
Unquoted(name) ==
    CASE name = "Chamados" -> "chamados"
      [] name = "Usuarios_id" -> "usuarios_id"
      [] name = "urlImagem" -> "urlimagem"
      [] name = "dataCriacao" -> "datacriacao"
      [] name = "dataAtualizacao" -> "dataatualizacao"
      [] OTHER -> name

\* The table CREATE TABLE Chamados of banco.sql makes, by the names
\* PostgreSQL keeps for it and for its columns.
BancoSql ==
    [rel |-> Unquoted("Chamados"),
     cols |-> {Unquoted("id"), Unquoted("Usuarios_id"), Unquoted("texto"),
               Unquoted("estado"), Unquoted("urlImagem"),
               Unquoted("dataCriacao"), Unquoted("dataAtualizacao")}]

\* The table the router's statements name, "Chamados" with the image column
\* "url_imagem": the Ticket of the data model, with the columns and
\* constraints of Chamados.
RouterSql ==
    [rel |-> "Chamados",
     cols |-> {"id", "Usuarios_id", "texto", "estado", "url_imagem",
               "dataCriacao", "dataAtualizacao"}]

\* A database: the table it holds and whether its INTEGER input is the
\* extended one.
Database(sql, extended) ==
    [rel |-> sql.rel, cols |-> sql.cols, extended |-> extended]

\* A statement as a handler passes it to pool.query: its kind, the table
\* and the columns it names, the four column parameters ($1..$4, when it has
\* them) and the id parameter.
NoParams == <<>>
NoStatement ==
    [kind |-> "none", rel |-> "", cols |-> {}, params |-> NoParams, id |-> NaN]
Statement(kind, rel, cols, params, id) ==
    [kind |-> kind, rel |-> rel, cols |-> cols, params |-> params, id |-> id]

\* The columns a statement of the kind names, given the names of the id
\* column and of the four updatable columns.
ColumnsNamed(kind, id, four) ==
    CASE kind = "insert" -> four
      [] kind \in {"update", "update_coalesce"} -> four \cup {id}
      [] OTHER -> {id}

\* A row of Chamados (the two timestamp columns are left out).
Row(id, uid, texto, estado, img) ==
    [id |-> id, Usuarios_id |-> uid, texto |-> texto, estado |-> estado,
     img |-> img]

\* What a statement gives back: an error, or the rows returned and the
\* number of rows affected, with the table and the sequence afterwards.
Failed(table, seq) ==
    [err |-> TRUE, rows |-> <<>>, rowCount |-> 0, table |-> table, seq |-> seq]
Done(rows, n, table, seq) ==
    [err |-> FALSE, rows |-> rows, rowCount |-> n, table |-> table, seq |-> seq]

\* ORDER BY id ASC over the rows of the table.
RECURSIVE RowsAsc(_, _)
RowsAsc(table, ids) ==
    IF ids = {} THEN <<>>
    ELSE LET m == CHOOSE i \in ids : \A j \in ids : i <= j
         IN <<table[m]>> \o RowsAsc(table, ids \ {m})

\* ORDER BY id DESC over the rows of the table.
RECURSIVE RowsDesc(_, _)
RowsDesc(table, ids) ==
    IF ids = {} THEN <<>>
    ELSE LET m == CHOOSE i \in ids : \A j \in ids : j <= i
         IN <<table[m]>> \o RowsDesc(table, ids \ {m})

\* The statement names a table or a column the database does not have.
Unresolved(q, db) == q.rel # db.rel \/ ~(q.cols \subseteq db.cols)

\* The id parameter as an INTEGER.
IdParam(q, db) == Int4In(NumToString(q.id), db.extended)

\* The column parameters cannot be taken as values of the column types: the
\* Usuarios_id text is no INTEGER, the estado text is too long for CHAR(1)
\* or the image text for VARCHAR(255).  The statement then fails before it
\* runs, with the parameters in place of $1..$4: before the sequence is
\* advanced and whether or not a row has the id.
BadColumnParams(params, db) ==
    LET Bad(u, e, g) ==
            \/ ~u.null /\ ~Int4In(u.txt, db.extended).ok
            \/ ~e.null /\ TooLong(e.txt, 1)
            \/ ~g.null /\ TooLong(g.txt, 255)
    IN Bad(PgParam(params[1]), PgParam(params[3]), PgParam(params[4]))

\* The row violates NOT NULL, the foreign key to Usuarios or the CHECK on
\* estado.  u, t, e are the values for Usuarios_id, texto and estado.
ViolatesConstraints(u, t, e, db) ==
    \/ u.null \/ t.null \/ e.null
    \/ Int4In(u.txt, db.extended).val \notin UsuariosIds
    \/ Char1(e.txt) \notin EstadosAdmitted

\* The image value as the column holds it.
ImageStored(g) == IF g.null THEN g ELSE SqlText(Varchar255(g.txt))

\* The row with the id as the columns hold the values u, t, e, g given for
\* Usuarios_id, texto, estado and the image.
Stored(id, u, t, e, g, db) ==
    Row(id, Int4In(u.txt, db.extended).val, t.txt, Char1(e.txt), ImageStored(g))

\* An INSERT that numbers the row by the count of the rows present instead
\* of from the sequence, so that an id comes back once a row is deleted.
ExecInsertReusingIds(q, db, table, seq) ==
    LET Added(row) == Done(<<row>>, 1, (row.id :> row) @@ table, seq + 1)
        Insert(u, t, e, g, id) ==
            IF BadColumnParams(q.params, db) THEN Failed(table, seq)
            ELSE IF ViolatesConstraints(u, t, e, db) THEN Failed(table, seq + 1)
            ELSE Added(Stored(id, u, t, e, g, db))
    IN Insert(PgParam(q.params[1]), PgParam(q.params[2]),
              PgParam(q.params[3]), PgParam(q.params[4]),
              Cardinality(DOMAIN table) + 1)

\* INSERT INTO chamados (...) VALUES ($1, $2, $3, $4) RETURNING *: the id is
\* the next value of the sequence, which stays consumed when a constraint
\* then rejects the row.
ExecInsert(q, db, table, seq) ==
    LET Added(row) == Done(<<row>>, 1, (row.id :> row) @@ table, row.id)
        Insert(u, t, e, g, id) ==
            IF BadColumnParams(q.params, db) THEN Failed(table, seq)
            ELSE IF ViolatesConstraints(u, t, e, db) THEN Failed(table, id)
            ELSE Added(Stored(id, u, t, e, g, db))
    IN Insert(PgParam(q.params[1]), PgParam(q.params[2]),
              PgParam(q.params[3]), PgParam(q.params[4]), seq + 1)

\* An assignment that keeps the old value when the parameter is NULL.
AssignedUnlessNull(old, p) == IF p.null THEN old ELSE p

\* SET col = $n
Assigned(old, p) == p

\* A COALESCE whose arguments are swapped: the parameter wins only over a
\* column that is NULL.
CoalesceColumnFirst(old, p) == IF old.null THEN p ELSE old

\* SET col = COALESCE($n, col)
Coalesce(old, p) == IF p.null THEN old ELSE p

\* Every SET clause taken as a COALESCE, and every one as a plain
\* assignment.
NewValueMerging(kind, old, p) == Coalesce(old, p)

NewValueAssigning(kind, old, p) == Assigned(old, p)

\* The value a column takes under the SET clause of the statement kind.
NewValue(kind, old, p) ==
    IF kind = "update_coalesce" THEN Coalesce(old, p) ELSE Assigned(old, p)

\* UPDATE chamados SET the four columns WHERE id = $5 RETURNING *
ExecUpdate(q, db, table, seq) ==
    LET Replaced(row) == Done(<<row>>, 1, [table EXCEPT ![row.id] = row], seq)
        Set(id, u, t, e, g) ==
            IF ViolatesConstraints(u, t, e, db) THEN Failed(table, seq)
            ELSE Replaced(Stored(id, u, t, e, g, db))
        Update(old) ==
            Set(old.id,
                NewValue(q.kind, SqlText(NatDigits(old.Usuarios_id)),
                         PgParam(q.params[1])),
                NewValue(q.kind, SqlText(old.texto), PgParam(q.params[2])),
                NewValue(q.kind, SqlText(old.estado), PgParam(q.params[3])),
                NewValue(q.kind, old.img, PgParam(q.params[4])))
        Where(id) ==
            IF ~id.ok \/ BadColumnParams(q.params, db) THEN Failed(table, seq)
            ELSE IF id.val \notin DOMAIN table THEN Done(<<>>, 0, table, seq)
            ELSE Update(table[id.val])
    IN Where(IdParam(q, db))

\* A SELECT that forgets its WHERE clause and gives the first row.
ExecSelectOneUnfiltered(q, db, table, seq) ==
    LET Where(id) ==
            IF ~id.ok THEN Failed(table, seq)
            ELSE IF DOMAIN table = {} THEN Done(<<>>, 0, table, seq)
            ELSE Done(<<table[CHOOSE i \in DOMAIN table :
                                \A j \in DOMAIN table : i <= j]>>,
                      1, table, seq)
    IN Where(IdParam(q, db))

\* SELECT * FROM chamados WHERE id = $1
ExecSelectOne(q, db, table, seq) ==
    LET Where(id) ==
            IF ~id.ok THEN Failed(table, seq)
            ELSE IF id.val \notin DOMAIN table THEN Done(<<>>, 0, table, seq)
            ELSE Done(<<table[id.val]>>, 1, table, seq)
    IN Where(IdParam(q, db))

\* SELECT * FROM chamados ORDER BY id DESC
ExecSelectAll(q, db, table, seq) ==
    Done(RowsDesc(table, DOMAIN table), Cardinality(DOMAIN table), table, seq)

\* DELETE FROM chamados WHERE id = $1 [RETURNING id]
ExecDelete(q, db, table, seq) ==
    LET Where(id) ==
            IF ~id.ok THEN Failed(table, seq)
            ELSE IF id.val \notin DOMAIN table THEN Done(<<>>, 0, table, seq)
            ELSE Done(<<>>, 1, [i \in DOMAIN table \ {id.val} |-> table[i]],
                      seq)
    IN Where(IdParam(q, db))

\* pool.query(statement) when the store executes it: a statement that names
\* a table or column the database does not have is rejected.
Exec(q, db, table, seq) ==
    IF Unresolved(q, db) THEN Failed(table, seq)
    ELSE CASE q.kind = "select_all" -> ExecSelectAll(q, db, table, seq)
           [] q.kind = "select_one" -> ExecSelectOne(q, db, table, seq)
           [] q.kind = "insert" -> ExecInsert(q, db, table, seq)
           [] q.kind \in {"update", "update_coalesce"} ->
                ExecUpdate(q, db, table, seq)
           [] q.kind = "delete" -> ExecDelete(q, db, table, seq)

\* ------------------------------------------------------------------------
\* Requests and responses
\* ------------------------------------------------------------------------

\* req.body: the object's fields, undefined where the key is absent.  img is
\* the image field under the key the revision reads (urlImagem in both
\* server.js files, url_imagem in the router); outro is any key that no
\* handler reads.  present is FALSE when the request has no body at all.
Body(present, uid, texto, estado, img, outro) ==
    [present |-> present, Usuarios_id |-> uid, texto |-> texto,
     estado |-> estado, img |-> img, outro |-> outro]

NoBody == Body(FALSE, JsUndef, JsUndef, JsUndef, JsUndef, JsUndef)

\* Object.keys(req.body ?? {}).length
KeysLength(b) ==
    Cardinality({k \in {"Usuarios_id", "texto", "estado", "img", "outro"} :
                   b[k].t # "undefined"})

Request(op, id, body) == [op |-> op, id |-> id, body |-> body]

\* A response: the status and the JSON body, an {erro: ...} object, a row, an
\* array of rows, the map of the routes (its keys and values, in order) or
\* nothing.
Response(status, erro, rows) ==
    [status |-> status, erro |-> erro, rows |-> rows, rotas |-> <<>>]
NoResponse == Response(0, "", <<>>)

\* A reply that also passes a statement to the store.
ReplyAfterQuery(status, erro) ==
    [reply |-> TRUE, resp |-> Response(status, erro, <<>>),
     query |-> Statement("select_all", "chamados", {"id"}, NoParams, NaN)]

\* What the part of a handler before the await does: it replies, or it
\* passes a statement to pool.query.
Reply(status, erro) ==
    [reply |-> TRUE, resp |-> Response(status, erro, <<>>), query |-> NoStatement]
Issue(q) == [reply |-> FALSE, resp |-> NoResponse, query |-> q]

\* res.json(rotas): status 200 with the map of the routes, no statement.
ReplyRoutes(rotas) ==
    [reply |-> TRUE, resp |-> [Response(200, "", <<>>) EXCEPT !.rotas = rotas],
     query |-> NoStatement]

\* The outcome of pool.query as the continuation sees it: a rejection with
\* its cause, or rows and rowCount.
NoResult == [err |-> FALSE, cause |-> "", rows |-> <<>>, rowCount |-> 0]
Rejected(cause) == [err |-> TRUE, cause |-> cause, rows |-> <<>>, rowCount |-> 0]
Resolved(rows, n) == [err |-> FALSE, cause |-> "", rows |-> rows, rowCount |-> n]

\* !Number.isInteger(id) || id <= 0
IdInvalid(id) == ~NumberIsInteger(JsNum(id)) \/ LeZero(id)

\* ------------------------------------------------------------------------
\* server.js
\* ------------------------------------------------------------------------

\* The statements of server.js name the table and its columns without
\* quotes.
ServerStatement(kind, params, id) ==
    Statement(kind, Unquoted("chamados"),
              {Unquoted(c) : c \in ColumnsNamed(kind, "id",
                  {"Usuarios_id", "texto", "estado", "urlImagem"})},
              params, id)

ServerErro == "Erro interno no servidor"
ServerIdInvalido == "ID inv{U+00E1}lido"
ServerNaoEncontrado == "Chamado n{U+00E3}o encontrado"

\* A catch that answers with the cause of the failure.
ServerCatchLeaks(res) == Response(500, res.cause, <<>>)

\* catch (error) { res.status(500).json({ erro: "Erro interno no servidor" }) }
ServerCatch(res) == Response(500, ServerErro, <<>>)

\* app.get("/"): the welcome route answers with the list of the routes.
ServerIndex(r) ==
    ReplyRoutes(
        << <<"LISTAR", "GET /api/chamados">>,
           <<"OBTER_UM", "GET /api/chamados/:id">>,
           <<"CRIAR", "POST /api/chamados BODY: { 'Usuarios_id': number, 'texto': string, 'estado': string, 'urlImagem'?: string }">>,
           <<"SUBSTITUIR", "PUT /api/chamados/:id BODY: { 'Usuarios_id': number, 'texto': string, 'estado': string, 'urlImagem'?: string }">>,
           <<"ATUALIZAR_PARCIAL", "PATCH /api/chamados/:id BODY: { 'Usuarios_id'?: number, 'texto'?: string, 'estado'?: string, 'urlImagem'?: string }">>,
           <<"DELETAR", "DELETE /api/chamados/:id">> >>)

ServerList(r) == Issue(ServerStatement("select_all", NoParams, NaN))

ServerListThen(res) ==
    IF res.err THEN ServerCatch(res) ELSE Response(200, "", res.rows)

ServerGet(r) ==
    LET Validated(id) ==
            IF IdInvalid(id) THEN Reply(400, ServerIdInvalido)
            ELSE Issue(ServerStatement("select_one", NoParams, id))
    IN Validated(StringToNumber(r.id))

ServerGetThen(res) ==
    IF res.err THEN ServerCatch(res)
    ELSE IF Len(res.rows) = 0 THEN Response(404, ServerNaoEncontrado, <<>>)
    ELSE Response(200, "", <<res.rows[1]>>)

\* The validation of POST: the three required fields.
ServerCreateInvalid(b) ==
    \/ Falsy(b.Usuarios_id) \/ ~NumberIsInteger(b.Usuarios_id)
    \/ LeZero(b.Usuarios_id.n)
    \/ Falsy(b.texto) \/ b.texto.t # "string"
    \/ Falsy(b.estado) \/ b.estado.t # "string"

ServerPost(r) ==
    LET b == r.body IN
    IF ServerCreateInvalid(b) THEN Reply(400, "Campos 'Usuarios_id' (inteiro > 0), 'texto' (string) e 'estado' (string) s{U+00E3}o obrigat{U+00F3}rios.")
    ELSE Issue(ServerStatement("insert",
                         <<b.Usuarios_id, b.texto, b.estado, b.img>>, NaN))

ServerPostThen(res) ==
    IF res.err THEN ServerCatch(res) ELSE Response(201, "", <<res.rows[1]>>)

\* The validation of PUT: as POST, and urlImagem may be null but not absent.
ServerReplaceInvalid(b) ==
    \/ Falsy(b.Usuarios_id) \/ ~NumberIsInteger(b.Usuarios_id)
    \/ LeZero(b.Usuarios_id.n)
    \/ Falsy(b.texto) \/ b.texto.t # "string"
    \/ Falsy(b.estado) \/ b.estado.t # "string"
    \/ b.img.t = "undefined"

ServerPut(r) ==
    LET Validated(id) ==
            IF IdInvalid(id) THEN Reply(400, ServerIdInvalido)
            ELSE IF ServerReplaceInvalid(r.body)
            THEN Reply(400, "Corpo da requisi{U+00E7}{U+00E3}o incompleto. Todos os campos s{U+00E3}o obrigat{U+00F3}rios para substitui{U+00E7}{U+00E3}o (PUT).")
            ELSE Issue(ServerStatement("update",
                  <<r.body.Usuarios_id, r.body.texto, r.body.estado,
                    r.body.img>>,
                  id))
    IN Validated(StringToNumber(r.id))

ServerPutThen(res) ==
    IF res.err THEN ServerCatch(res)
    ELSE IF Len(res.rows) = 0 THEN Response(404, ServerNaoEncontrado, <<>>)
    ELSE Response(200, "", <<res.rows[1]>>)

\* Object.keys(req.body ?? {}).length === 0
ServerPatchEmpty(b) == KeysLength(b) = 0

\* Usuarios_id !== undefined && (!Number.isInteger(Usuarios_id) || Usuarios_id <= 0)
ServerPatchUidInvalid(b) ==
    b.Usuarios_id.t # "undefined"
    /\ (~NumberIsInteger(b.Usuarios_id) \/ LeZero(b.Usuarios_id.n))

ServerPatch(r) ==
    LET Validated(id) ==
            IF IdInvalid(id) THEN Reply(400, ServerIdInvalido)
            ELSE IF ServerPatchEmpty(r.body)
            THEN Reply(400, "{U+00C9} necess{U+00E1}rio enviar ao menos um campo para atualizar.")
            ELSE IF ServerPatchUidInvalid(r.body)
            THEN Reply(400, "Campo 'Usuarios_id' deve ser um inteiro positivo.")
            ELSE Issue(ServerStatement("update_coalesce",
                  <<OrNull(r.body.Usuarios_id), OrNull(r.body.texto),
                    OrNull(r.body.estado), OrNull(r.body.img)>>,
                  id))
    IN Validated(StringToNumber(r.id))

ServerPatchThen(res) ==
    IF res.err THEN ServerCatch(res)
    ELSE IF Len(res.rows) = 0 THEN Response(404, ServerNaoEncontrado, <<>>)
    ELSE Response(200, "", <<res.rows[1]>>)

ServerDelete(r) ==
    LET Validated(id) ==
            IF IdInvalid(id) THEN Reply(400, ServerIdInvalido)
            ELSE Issue(ServerStatement("delete", NoParams, id))
    IN Validated(StringToNumber(r.id))

ServerDeleteThen(res) ==
    IF res.err THEN ServerCatch(res)
    ELSE IF res.rowCount = 0 THEN Response(404, ServerNaoEncontrado, <<>>)
    ELSE Response(204, "", <<>>)

\* ------------------------------------------------------------------------
\* part_002: routes/chamados.routes.js
\* ------------------------------------------------------------------------

\* The statements of the router name the table and its columns in quotes.
RouterStatement(kind, params, id) ==
    Statement(kind, "Chamados",
              ColumnsNamed(kind, "id",
                  {"Usuarios_id", "texto", "estado", "url_imagem"}),
              params, id)

RouterErro == "Erro interno no servidor"
RouterIdInvalido == "ID inv{U+00E1}lido"
RouterNaoEncontrado == "Chamado n{U+00E3}o encontrado"

\* catch (error) { res.status(500).json({ erro: "Erro interno no servidor" }) }
RouterCatch(res) == Response(500, RouterErro, <<>>)

\* GET / on the application that mounts the router under /api/chamados
\* (and another under /api/usuarios): no route matches, and Express answers
\* 404 without a JSON body.
AppIndex(r) == Reply(404, "")

RouterList(r) == Issue(RouterStatement("select_all", NoParams, NaN))

RouterListThen(res) ==
    IF res.err THEN RouterCatch(res) ELSE Response(200, "", res.rows)

RouterGet(r) ==
    LET Validated(id) ==
            IF IdInvalid(id) THEN Reply(400, RouterIdInvalido)
            ELSE Issue(RouterStatement("select_one", NoParams, id))
    IN Validated(StringToNumber(r.id))

RouterGetThen(res) ==
    IF res.err THEN RouterCatch(res)
    ELSE IF Len(res.rows) = 0 THEN Response(404, RouterNaoEncontrado, <<>>)
    ELSE Response(200, "", <<res.rows[1]>>)

\* The validation of POST: the three required fields.
RouterCreateInvalid(b) ==
    \/ Falsy(b.Usuarios_id) \/ ~NumberIsInteger(b.Usuarios_id)
    \/ LeZero(b.Usuarios_id.n)
    \/ Falsy(b.texto) \/ b.texto.t # "string"
    \/ Falsy(b.estado) \/ b.estado.t # "string"

RouterPost(r) ==
    LET b == r.body IN
    IF RouterCreateInvalid(b) THEN Reply(400, "Campos 'Usuarios_id' (inteiro > 0), 'texto' (string) e 'estado' (string) s{U+00E3}o obrigat{U+00F3}rios.")
    ELSE Issue(RouterStatement("insert",
                         <<b.Usuarios_id, b.texto, b.estado, b.img>>, NaN))

RouterPostThen(res) ==
    IF res.err THEN RouterCatch(res) ELSE Response(201, "", <<res.rows[1]>>)

\* The validation of PUT: as POST, and url_imagem may be null but not absent.
RouterReplaceInvalid(b) ==
    \/ Falsy(b.Usuarios_id) \/ ~NumberIsInteger(b.Usuarios_id)
    \/ LeZero(b.Usuarios_id.n)
    \/ Falsy(b.texto) \/ b.texto.t # "string"
    \/ Falsy(b.estado) \/ b.estado.t # "string"
    \/ b.img.t = "undefined"

RouterPut(r) ==
    LET Validated(id) ==
            IF IdInvalid(id) THEN Reply(400, RouterIdInvalido)
            ELSE IF RouterReplaceInvalid(r.body)
            THEN Reply(400, "Corpo da requisi{U+00E7}{U+00E3}o incompleto. Todos os campos s{U+00E3}o obrigat{U+00F3}rios para substitui{U+00E7}{U+00E3}o (PUT).")
            ELSE Issue(RouterStatement("update",
                  <<r.body.Usuarios_id, r.body.texto, r.body.estado,
                    r.body.img>>,
                  id))
    IN Validated(StringToNumber(r.id))

RouterPutThen(res) ==
    IF res.err THEN RouterCatch(res)
    ELSE IF Len(res.rows) = 0 THEN Response(404, RouterNaoEncontrado, <<>>)
    ELSE Response(200, "", <<res.rows[1]>>)

\* Object.keys(req.body ?? {}).length === 0
RouterPatchEmpty(b) == KeysLength(b) = 0

\* Usuarios_id !== undefined && (!Number.isInteger(Usuarios_id) || Usuarios_id <= 0)
RouterPatchUidInvalid(b) ==
    b.Usuarios_id.t # "undefined"
    /\ (~NumberIsInteger(b.Usuarios_id) \/ LeZero(b.Usuarios_id.n))

RouterPatch(r) ==
    LET Validated(id) ==
            IF IdInvalid(id) THEN Reply(400, RouterIdInvalido)
            ELSE IF RouterPatchEmpty(r.body)
            THEN Reply(400, "{U+00C9} necess{U+00E1}rio enviar ao menos um campo para atualizar.")
            ELSE IF RouterPatchUidInvalid(r.body)
            THEN Reply(400, "Campo 'Usuarios_id' deve ser um inteiro positivo.")
            ELSE Issue(RouterStatement("update_coalesce",
                  <<OrNull(r.body.Usuarios_id), OrNull(r.body.texto),
                    OrNull(r.body.estado), OrNull(r.body.img)>>,
                  id))
    IN Validated(StringToNumber(r.id))

RouterPatchThen(res) ==
    IF res.err THEN RouterCatch(res)
    ELSE IF Len(res.rows) = 0 THEN Response(404, RouterNaoEncontrado, <<>>)
    ELSE Response(200, "", <<res.rows[1]>>)

RouterDelete(r) ==
    LET Validated(id) ==
            IF IdInvalid(id) THEN Reply(400, RouterIdInvalido)
            ELSE Issue(RouterStatement("delete", NoParams, id))
    IN Validated(StringToNumber(r.id))

RouterDeleteThen(res) ==
    IF res.err THEN RouterCatch(res)
    ELSE IF res.rowCount = 0 THEN Response(404, RouterNaoEncontrado, <<>>)
    ELSE Response(204, "", <<>>)

\* ------------------------------------------------------------------------
\* part_001: the first revision of server.js
\* ------------------------------------------------------------------------

\* The statements of the first revision name the table and its columns
\* without quotes.
FirstStatement(kind, params, id) ==
    Statement(kind, Unquoted("chamados"),
              {Unquoted(c) : c \in ColumnsNamed(kind, "id",
                  {"Usuarios_id", "texto", "estado", "urlImagem"})},
              params, id)

FirstErro == "erro interno"
FirstIdInvalido == "id inv{U+00E1}lido"
FirstNaoEncontrado == "n{U+00E3}o encontrado"

\* catch { res.status(500).json({ erro: "erro interno" }) }
FirstCatch(res) == Response(500, FirstErro, <<>>)

\* app.get("/") of the first revision.
FirstIndex(r) ==
    ReplyRoutes(
        << <<"LISTAR", "GET /api/chamados">>,
           <<"MOSTRAR", "GET /api/chamados/:id">>,
           <<"CRIAR", "POST /api/chamados BODY: { 'Usuarios_id': number, 'texto': string, 'estado': string, 'urlImagem'?: string }">>,
           <<"SUBSTITUIR", "PUT /api/chamados/:id BODY: { 'Usuarios_id': number, 'texto': string, 'estado': string, 'urlImagem'?: string }">>,
           <<"ATUALIZAR", "PATCH /api/chamados/:id BODY: { 'Usuarios_id': number || 'texto': string || 'estado': string || 'urlImagem'?: string }">>,
           <<"DELETAR", "DELETE /api/chamados/:id">> >>)

FirstList(r) == Issue(FirstStatement("select_all", NoParams, NaN))

FirstListThen(res) ==
    IF res.err THEN FirstCatch(res) ELSE Response(200, "", res.rows)

FirstGet(r) ==
    LET Validated(id) ==
            IF IdInvalid(id) THEN Reply(400, FirstIdInvalido)
            ELSE Issue(FirstStatement("select_one", NoParams, id))
    IN Validated(StringToNumber(r.id))

FirstGetThen(res) ==
    IF res.err THEN FirstCatch(res)
    ELSE IF Len(res.rows) = 0 THEN Response(404, FirstNaoEncontrado, <<>>)
    ELSE Response(200, "", <<res.rows[1]>>)

\* The validation of POST and of PUT: three non-empty strings, and
\* uId = Number(Usuarios_id) neither NaN nor below 1.
FirstBodyInvalid(b) ==
    LET UidInvalid(uId) ==
            b.Usuarios_id.t \in {"undefined", "null"} \/ uId.nan \/ LtOne(uId)
    IN \/ Falsy(b.texto) \/ b.texto.t # "string"
       \/ Falsy(b.estado) \/ b.estado.t # "string"
       \/ Falsy(b.img) \/ b.img.t # "string"
       \/ UidInvalid(ToNumber(b.Usuarios_id))

FirstPost(r) ==
    LET b == r.body IN
    IF FirstBodyInvalid(b) THEN Reply(400, "Texto, estado, urlImagem precisam ser strings n{U+00E3}o vazias. Usuarios_id precisa ser um n{U+00FA}mero inteiro > 0.")
    ELSE Issue(FirstStatement("insert",
                         <<b.Usuarios_id, b.texto, b.estado, b.img>>, NaN))

FirstPostThen(res) ==
    IF res.err THEN FirstCatch(res) ELSE Response(201, "", <<res.rows[1]>>)

FirstPut(r) ==
    LET Validated(id) ==
            IF IdInvalid(id) THEN Reply(400, FirstIdInvalido)
            ELSE IF FirstBodyInvalid(r.body)
            THEN Reply(400, "Texto, estado, urlImagem precisam ser strings n{U+00E3}o vazias. Usuarios_id precisa ser um n{U+00FA}mero inteiro > 0.")
            ELSE Issue(FirstStatement("update",
                  <<r.body.Usuarios_id, r.body.texto, r.body.estado,
                    r.body.img>>,
                  id))
    IN Validated(StringToNumber(r.id))

FirstPutThen(res) ==
    IF res.err THEN FirstCatch(res)
    ELSE IF Len(res.rows) = 0 THEN Response(404, FirstNaoEncontrado, <<>>)
    ELSE Response(200, "", <<res.rows[1]>>)

\* None of the four fields was sent.
FirstPatchEmpty(b) ==
    /\ b.Usuarios_id.t = "undefined" /\ b.texto.t = "undefined"
    /\ b.estado.t = "undefined" /\ b.img.t = "undefined"

\* Usuarios_id was sent and Number(Usuarios_id) is NaN or below 1.
FirstPatchUidInvalid(b) ==
    LET UidInvalid(uId) == uId.nan \/ LtOne(uId)
    IN b.Usuarios_id.t # "undefined" /\ UidInvalid(ToNumber(b.Usuarios_id))

FirstPatch(r) ==
    LET Validated(id) ==
            IF IdInvalid(id) THEN Reply(400, FirstIdInvalido)
            ELSE IF FirstPatchEmpty(r.body)
            THEN Reply(400, "{U+00C9} necess{U+00E1}rio enviar ao menos um campo para atualizar.")
            ELSE IF FirstPatchUidInvalid(r.body)
            THEN Reply(400, "Usuarios_id deve ser um inteiro > 0.")
            ELSE Issue(FirstStatement("update_coalesce",
                  <<OrNull(r.body.Usuarios_id), OrNull(r.body.texto),
                    OrNull(r.body.estado), OrNull(r.body.img)>>,
                  id))
    IN Validated(StringToNumber(r.id))

FirstPatchThen(res) ==
    IF res.err THEN FirstCatch(res)
    ELSE IF Len(res.rows) = 0 THEN Response(404, FirstNaoEncontrado, <<>>)
    ELSE Response(200, "", <<res.rows[1]>>)

FirstDelete(r) ==
    LET Validated(id) ==
            IF IdInvalid(id) THEN Reply(400, FirstIdInvalido)
            ELSE Issue(FirstStatement("delete", NoParams, id))
    IN Validated(StringToNumber(r.id))

FirstDeleteThen(res) ==
    IF res.err THEN FirstCatch(res)
    ELSE IF res.rowCount = 0 THEN Response(404, FirstNaoEncontrado, <<>>)
    ELSE Response(204, "", <<>>)

\* ------------------------------------------------------------------------
\* The three revisions behind one interface
\* ------------------------------------------------------------------------

Variants == {"server", "part_001", "part_002"}

\* The route handler of a request up to its await.
Handler(v, r) ==
    CASE v = "server" ->
           (CASE r.op = "list" -> ServerList(r) [] r.op = "get" -> ServerGet(r)
              [] r.op = "post" -> ServerPost(r) [] r.op = "put" -> ServerPut(r)
              [] r.op = "patch" -> ServerPatch(r)
              [] r.op = "delete" -> ServerDelete(r)
              [] r.op = "index" -> ServerIndex(r))
      [] v = "part_001" ->
           (CASE r.op = "list" -> FirstList(r) [] r.op = "get" -> FirstGet(r)
              [] r.op = "post" -> FirstPost(r) [] r.op = "put" -> FirstPut(r)
              [] r.op = "patch" -> FirstPatch(r)
              [] r.op = "delete" -> FirstDelete(r)
              [] r.op = "index" -> FirstIndex(r))
      [] v = "part_002" ->
           (CASE r.op = "list" -> RouterList(r) [] r.op = "get" -> RouterGet(r)
              [] r.op = "post" -> RouterPost(r) [] r.op = "put" -> RouterPut(r)
              [] r.op = "patch" -> RouterPatch(r)
              [] r.op = "delete" -> RouterDelete(r)
              [] r.op = "index" -> AppIndex(r))

\* The rest of the handler, after the await settled with res.
Continuation(v, op, res) ==
    CASE v = "server" ->
           (CASE op = "list" -> ServerListThen(res) [] op = "get" -> ServerGetThen(res)
              [] op = "post" -> ServerPostThen(res) [] op = "put" -> ServerPutThen(res)
              [] op = "patch" -> ServerPatchThen(res)
              [] op = "delete" -> ServerDeleteThen(res))
      [] v = "part_001" ->
           (CASE op = "list" -> FirstListThen(res) [] op = "get" -> FirstGetThen(res)
              [] op = "post" -> FirstPostThen(res) [] op = "put" -> FirstPutThen(res)
              [] op = "patch" -> FirstPatchThen(res)
              [] op = "delete" -> FirstDeleteThen(res))
      [] v = "part_002" ->
           (CASE op = "list" -> RouterListThen(res) [] op = "get" -> RouterGetThen(res)
              [] op = "post" -> RouterPostThen(res) [] op = "put" -> RouterPutThen(res)
              [] op = "patch" -> RouterPatchThen(res)
              [] op = "delete" -> RouterDeleteThen(res))

\* ------------------------------------------------------------------------
\* The inputs: the id strings and the bodies the clients send
\* ------------------------------------------------------------------------

\* The :id path parameters: the id of a ticket banco.sql inserts, an id no
\* row has in exponent notation (1000), the malformed kinds, an integer
\* written with a point, the two ids around the end of the INTEGER range,
\* two fractions too near to 1 for a double (one above, one below), a
\* hexadecimal numeral (16), an id after an em space, and Infinity.
IdStrings ==
    { <<"1">>, <<"1", "e", "0", "0", "0", "3">>,
      <<"0">>, <<"-", "1">>, <<"1", ".", "5">>, <<"a", "b", "c">>,
      <<"1", ".", "0">>,
      <<"2", "1", "4", "7", "4", "8", "3", "6", "4", "7">>,
      <<"2", "1", "4", "7", "4", "8", "3", "6", "4", "8">>,
      <<"1", ".", "0", "0", "0", "0", "0", "0", "0", "0", "0", "0", "0", "0",
        "0", "0", "0", "0", "0", "0", "1">>,
      <<"0", ".", "9", "9", "9", "9", "9", "9", "9", "9", "9", "9", "9", "9",
        "9", "9", "9", "9", "9", "9", "9", "9">>,
      <<"0", "x", "1", "0">>, <<"U+2003", "1">>,
      <<"I", "n", "f", "i", "n", "i", "t", "y">> }

Uid1 == JsNum(IntNum(1))
Uid2 == JsNum(IntNum(2))
Texto1 == JsStr(<<"t", "1">>)
Texto2 == JsStr(<<"t", "2">>)
Aberto == JsStr(<<"a">>)
Fechado == JsStr(<<"f">>)
Img1 == JsStr(<<"u", "1">>)

\* Two complete bodies that differ in every field; the second has no image.
Body1 == Body(TRUE, Uid1, Texto1, Aberto, Img1, JsUndef)
Body2 == Body(TRUE, Uid2, Texto2, Fechado, JsNull, JsUndef)

\* Values a client may send for Usuarios_id, texto, estado and the image
\* that are missing, null, empty, of another type, out of range or too
\* long: among them the number 1e21, an estado of two characters, an estado
\* followed by a blank, an image of 256 characters, and an image of 255
\* characters followed by a blank.
UidOddities ==
    { JsUndef, JsNull, JsNum(IntNum(0)), JsNum(IntNum(-1)),
      JsNum(DecNum(1, <<"5">>)), JsStr(<<"2">>), JsStr(<<"a", "b", "c">>),
      JsBool(TRUE), JsNum(IntNum(9)), JsStr(<<"0", "x", "2">>),
      JsStr(<<"\t", "2">>) }
TextoOddities ==
    { JsUndef, JsNull, JsStr(<<>>),
      JsNum(StringToNumber(<<"1", "e", "2", "1">>)) }
EstadoOddities ==
    { JsUndef, JsNull, JsStr(<<>>), JsNum(IntNum(7)), JsStr(<<"x">>),
      JsStr(<<"a", "b">>), JsStr(<<"a", " ">>) }
ImgTooLong == JsStr(Repeat("x", 256))
ImgPadded == JsStr(Repeat("x", 255) \o <<" ">>)

\* The bodies sent to POST and PUT: the complete ones, Body1 with one field
\* odd, Body1 without its image, with an image too long, with an image
\* that ends in a blank beyond the column's length and with a number for an
\* image, Body1 with one more key, and no body.
CompleteBodies ==
    { Body1, Body2, NoBody }
    \cup { [Body1 EXCEPT !.Usuarios_id = v] : v \in UidOddities }
    \cup { [Body1 EXCEPT !.texto = v] : v \in TextoOddities }
    \cup { [Body1 EXCEPT !.estado = v] : v \in EstadoOddities }
    \cup { [Body1 EXCEPT !.img = JsUndef], [Body1 EXCEPT !.img = ImgTooLong],
           [Body1 EXCEPT !.img = ImgPadded],
           [Body1 EXCEPT !.img = JsNum(IntNum(5))],
           [Body1 EXCEPT !.outro = JsBool(TRUE)] }

\* The bodies sent to PATCH: any subset of the four fields, one field alone
\* with an odd value, a body with only a key no handler reads, an empty
\* object and no body.
Fields(u, t, e, g) == Body(TRUE, u, t, e, g, JsUndef)

PartialBodies ==
    { Fields(u, t, e, g) :
        u \in {JsUndef, Uid2}, t \in {JsUndef, Texto2},
        e \in {JsUndef, Fechado}, g \in {JsUndef, Img1} }
    \cup { Fields(v, JsUndef, JsUndef, JsUndef) : v \in UidOddities }
    \cup { Fields(JsUndef, v, JsUndef, JsUndef) : v \in TextoOddities }
    \cup { Fields(JsUndef, JsUndef, v, JsUndef) : v \in EstadoOddities }
    \cup { Fields(JsUndef, JsUndef, JsUndef, JsNull),
           Fields(JsUndef, JsUndef, JsUndef, ImgTooLong),
           Fields(JsUndef, JsUndef, JsUndef, ImgPadded),
           Fields(Uid1, Texto1, JsUndef, JsNull),
           Body(TRUE, JsUndef, JsUndef, JsUndef, JsUndef, JsBool(TRUE)),
           NoBody }

\* The requests a client may send: GET / (index) and the six operations on
\* /api/chamados.  GET and DELETE carry no body; PUT and PATCH are sent with
\* every body to ticket 1 and with Body1 to every id.
Requests ==
    { Request("index", <<>>, NoBody), Request("list", <<>>, NoBody) }
    \cup { Request(op, id, NoBody) : op \in {"get", "delete"}, id \in IdStrings }
    \cup { Request("post", <<>>, b) : b \in CompleteBodies }
    \cup { Request("put", <<"1">>, b) : b \in CompleteBodies }
    \cup { Request("patch", <<"1">>, b) : b \in PartialBodies }
    \cup { Request(op, id, Body1) : op \in {"put", "patch"}, id \in IdStrings }

\* A complete body the handlers accept and the store rejects (estado "x"),
\* one whose Usuarios_id is a fraction, one whose image is too long for the
\* column, and one whose estado is followed by a blank.
BodyBadEstado == [Body2 EXCEPT !.estado = JsStr(<<"x">>)]
BodyFractionUid == [Body1 EXCEPT !.Usuarios_id = JsNum(DecNum(1, <<"5">>))]
BodyImgTooLong == [Body2 EXCEPT !.img = ImgTooLong]
BodyEstadoPadded == [Body2 EXCEPT !.estado = JsStr(<<"f", " ">>)]

\* The requests two clients send at the same time: all on ticket 1, with
\* PUTs of different bodies and PATCHes of different single fields, among
\* them bodies and fields the store rejects.
ConcurrentRequests ==
    { Request("post", <<>>, Body1),
      Request("get", <<"1">>, NoBody),
      Request("delete", <<"1">>, NoBody),
      Request("put", <<"1">>, Body1),
      Request("put", <<"1">>, Body2),
      Request("put", <<"1">>, BodyBadEstado),
      Request("put", <<"1">>, BodyFractionUid),
      Request("put", <<"1">>, BodyImgTooLong),
      Request("put", <<"1">>, BodyEstadoPadded),
      Request("patch", <<"1">>, Fields(JsUndef, Texto2, JsUndef, JsUndef)),
      Request("patch", <<"1">>, Fields(JsUndef, JsUndef, Fechado, JsUndef)),
      Request("patch", <<"1">>, Fields(Uid2, JsUndef, JsUndef, JsNull)),
      Request("patch", <<"1">>,
              Fields(JsUndef, JsUndef, JsStr(<<"x">>), JsUndef)) }

\* The requests of the fair executions: one that is refused, and one of
\* each kind of statement on ticket 1.
FairRequests ==
    { Request("get", <<"a", "b", "c">>, NoBody),
      Request("get", <<"1">>, NoBody),
      Request("post", <<>>, Body1),
      Request("delete", <<"1">>, NoBody) }

\* Every request of the executions considered.
AllRequests == Requests \cup ConcurrentRequests \cup FairRequests

\* ------------------------------------------------------------------------
\* The state machine
\* ------------------------------------------------------------------------

Clients == {"c1", "c2"}

\* The causes outside the statement for which pool.query rejects;
\* "statement" is PostgreSQL rejecting the statement itself (a parameter it
\* cannot convert, a constraint).
OutsideCauses == {"connection", "timeout"}

VARIABLES
    variant,    \* the revision that is running
    db,         \* the database it runs against
    chamados,   \* the Chamados table: id -> row
    seq,        \* the last value of the sequence behind Chamados.id
    issued,     \* history: the ids INSERTs have given to rows, in order
    arrived,    \* history: the number of requests that have arrived
    pc,         \* per client: "idle", "awaiting", "settled", "responded"
    req,        \* per client: the request being handled
    query,      \* per client: the statement passed to pool.query
    sent,       \* per client: the pool.query calls made for the request
    result,     \* per client: what pool.query settled with
    resp        \* per client: the response sent

vars ==
    <<variant, db, chamados, seq, issued, arrived, pc, req, query, sent, result, resp>>

NoRequest == Request("none", <<>>, NoBody)

\* The tickets banco.sql inserts after creating the table, in the order of
\* its INSERTs: the sequence gives them the ids 1 to 7.
Inserted ==
    << Row(1, 1,
          <<"E", "r", "r", "o", " ", "a", "o", " ", "c", "o", "m", "p", "i",
            "l", "a", "r">>,
          <<"a">>,
          SqlText(<<"/", "i", "m", "g", "/", "U+00ED", "c", "o", "n", "e", ".",
                   "p", "n", "g">>)),
       Row(2, 1,
          <<"N", "U+00E3", "o", " ", "c", "o", "n", "s", "i", "g", "o", " ", "e",
            "n", "c", "o", "n", "t", "r", "a", "r", " ", "o", " ", "m", "a",
            "t", "e", "r", "i", "a", "l", " ", "d", "a", " ", "a", "u", "l",
            "a", " ", "5", ".">>,
          <<"f">>,
          SqlNull),
       Row(3, 3,
          <<"O", " ", "l", "i", "n", "k", " ", "p", "a", "r", "a", " ", "a",
            " ", "b", "i", "b", "l", "i", "o", "t", "e", "c", "a", " ", "v",
            "i", "r", "t", "u", "a", "l", " ", "e", "s", "t", "U+00E1", " ", "q",
            "u", "e", "b", "r", "a", "d", "o", ".">>,
          <<"a">>,
          SqlNull),
       Row(4, 4,
          <<"R", "e", "c", "e", "b", "e", "n", "d", "o", " ", "e", "r", "r",
            "o", " ", "4", "0", "4", " ", "a", "o", " ", "t", "e", "n", "t",
            "a", "r", " ", "a", "c", "e", "s", "s", "a", "r", " ", "a", " ",
            "p", "U+00E1", "g", "i", "n", "a", " ", "d", "e", " ", "e", "x", "e",
            "r", "c", "U+00ED", "c", "i", "o", "s", ".">>,
          <<"a">>,
          SqlText(<<"/", "i", "m", "g", "/", "e", "r", "r", "o", "s", "/",
                   "e", "r", "r", "o", "4", "0", "4", "_", "e", "x", "e",
                   "r", "c", "i", "c", "i", "o", "s", ".", "j", "p", "g">>)),
       Row(5, 4,
          <<"D", "U+00FA", "v", "i", "d", "a", " ", "s", "o", "b", "r", "e", " ",
            "o", " ", "c", "r", "i", "t", "U+00E9", "r", "i", "o", " ", "d", "e",
            " ", "a", "v", "a", "l", "i", "a", "U+00E7", "U+00E3", "o", " ", "d", "o",
            " ", "t", "r", "a", "b", "a", "l", "h", "o", " ", "f", "i", "n",
            "a", "l", ".">>,
          <<"f">>,
          SqlNull),
       Row(6, 3,
          <<"Q", "u", "a", "l", " ", "U+00E9", " ", "o", " ", "p", "r", "a", "z",
            "o", " ", "p", "a", "r", "a", " ", "a", " ", "e", "n", "t", "r",
            "e", "g", "a", " ", "d", "o", " ", "p", "r", "i", "m", "e", "i",
            "r", "o", " ", "p", "r", "o", "j", "e", "t", "o", "?">>,
          <<"a">>,
          SqlNull),
       Row(7, 2,
          <<"M", "i", "n", "h", "a", " ", "s", "a", "l", "a", " ", "v", "i",
            "r", "t", "u", "a", "l", " ", "n", "U+00E3", "o", " ", "e", "s", "t",
            "U+00E1", " ", "a", "p", "a", "r", "e", "c", "e", "n", "d", "o", " ",
            "n", "o", " ", "p", "a", "i", "n", "e", "l", " ", "p", "r", "i",
            "n", "c", "i", "p", "a", "l", ".">>,
          <<"a">>,
          SqlNull) >>

\* The table each revision's statements are written for.
SqlOf(v) == IF v = "part_002" THEN RouterSql ELSE BancoSql

\* The service starts on the database as the script leaves it: the seven
\* tickets, the sequence at 7.  Each revision runs against the table its
\* statements name, on a PostgreSQL of either kind of INTEGER input.
Init ==
    /\ variant \in Variants
    /\ db \in {Database(SqlOf(variant), x) : x \in BOOLEAN}
    /\ chamados = [i \in 1..Len(Inserted) |-> Inserted[i]]
    /\ seq = Len(Inserted)
    /\ issued = [i \in 1..Len(Inserted) |-> Inserted[i].id]
    /\ arrived = 0
    /\ pc = [c \in Clients |-> "idle"]
    /\ req = [c \in Clients |-> NoRequest]
    /\ query = [c \in Clients |-> NoStatement]
    /\ sent = [c \in Clients |-> 0]
    /\ result = [c \in Clients |-> NoResult]
    /\ resp = [c \in Clients |-> NoResponse]

\* What pool.query settles with when the store has executed the statement.
Settled(out) ==
    IF out.err THEN Rejected("statement") ELSE Resolved(out.rows, out.rowCount)

\* What the handler of each revision does with each request up to its
\* await.
Handled == [v \in Variants |-> [r \in AllRequests |-> Handler(v, r)]]

\* A request arrives and its handler runs up to the await: it replies with a
\* 400 or passes one statement to pool.query.
Receive(c, r) ==
    /\ pc[c] = "idle" /\ arrived < MaxRequests
    /\ arrived' = arrived + 1
    /\ \E h \in {Handled[variant][r]} :
        /\ req' = [req EXCEPT ![c] = r]
        /\ query' = [query EXCEPT ![c] = h.query]
        /\ sent' = [sent EXCEPT ![c] = IF h.query = NoStatement THEN 0 ELSE 1]
        /\ resp' = [resp EXCEPT ![c] = h.resp]
        /\ pc' = [pc EXCEPT ![c] = IF h.reply THEN "responded" ELSE "awaiting"]
    /\ UNCHANGED <<variant, db, chamados, seq, issued, result>>

\* The store executes the statement, atomically, and the query settles.
StoreExec(c) ==
    /\ pc[c] = "awaiting"
    /\ \E out \in {Exec(query[c], db, chamados, seq)} :
        /\ chamados' = out.table
        /\ seq' = out.seq
        /\ issued' = IF query[c].kind = "insert" /\ ~out.err
                     THEN Append(issued, out.rows[1].id) ELSE issued
        /\ result' = [result EXCEPT ![c] = Settled(out)]
    /\ pc' = [pc EXCEPT ![c] = "settled"]
    /\ UNCHANGED <<variant, db, arrived, req, query, sent, resp>>

\* The query is rejected for a cause outside the statement.  The cause
\* strikes before the store has the statement, or after the store has
\* executed it (a connection lost after the commit): executed tells which.
StoreFail(c, cause, executed) ==
    /\ pc[c] = "awaiting"
    /\ \E out \in {IF executed THEN Exec(query[c], db, chamados, seq)
                    ELSE Failed(chamados, seq)} :
        /\ chamados' = out.table
        /\ seq' = out.seq
        /\ issued' = IF query[c].kind = "insert" /\ ~out.err
                     THEN Append(issued, out.rows[1].id) ELSE issued
    /\ result' = [result EXCEPT ![c] = Rejected(cause)]
    /\ pc' = [pc EXCEPT ![c] = "settled"]
    /\ UNCHANGED <<variant, db, arrived, req, query, sent, resp>>

\* A continuation that runs only when the query gave rows.
ResumeUnlessRejected(c) ==
    /\ pc[c] = "settled" /\ ~result[c].err
    /\ resp' = [resp EXCEPT ![c] = Continuation(variant, req[c].op, result[c])]
    /\ pc' = [pc EXCEPT ![c] = "responded"]
    /\ UNCHANGED <<variant, db, chamados, seq, issued, arrived, req, query, sent,
                   result>>

\* The handler resumes after the await and sends its response.
Resume(c) ==
    /\ pc[c] = "settled"
    /\ resp' = [resp EXCEPT ![c] = Continuation(variant, req[c].op, result[c])]
    /\ pc' = [pc EXCEPT ![c] = "responded"]
    /\ UNCHANGED <<variant, db, chamados, seq, issued, arrived, req, query, sent,
                   result>>

\* The client has its response; the next request may come.
Finish(c) ==
    /\ pc[c] = "responded"
    /\ pc' = [pc EXCEPT ![c] = "idle"]
    /\ req' = [req EXCEPT ![c] = NoRequest]
    /\ query' = [query EXCEPT ![c] = NoStatement]
    /\ sent' = [sent EXCEPT ![c] = 0]
    /\ result' = [result EXCEPT ![c] = NoResult]
    /\ resp' = [resp EXCEPT ![c] = NoResponse]
    /\ UNCHANGED <<variant, db, chamados, seq, issued, arrived>>

\* One client at a time: each request is answered before the next is sent.
Next ==
    \/ \E r \in Requests : Receive("c1", r)
    \/ StoreExec("c1")
    \/ \E cause \in OutsideCauses : \E executed \in BOOLEAN :
           StoreFail("c1", cause, executed)
    \/ Resume("c1")
    \/ Finish("c1")

Spec == Init /\ [][Next]_vars

\* ------------------------------------------------------------------------
\* Vocabulary of the properties
\* ------------------------------------------------------------------------

\* The id string is malformed: it writes no finite number (non-numeric),
\* or the number it writes, taken exactly as its digits give it and not as
\* the double nearest to it, is zero, negative, or has a fraction.
MalformedId(s) ==
    LET Exactly(lit, sig, mag) ==
            \/ lit.nan \/ lit.inf
            \/ sig = <<>>
            \/ lit.neg
            \/ Len(sig) > mag
        Written(lit) ==
            Exactly(lit, StripTrailingZeros(StripLeadingZeros(lit.digits)),
                    lit.point - LeadingZeros(lit.digits))
    IN Written(StringNumericLiteral(Trim(s)))

\* The malformed id strings among those the clients send.
MalformedIdStrings == {s \in IdStrings : MalformedId(s)}

IdOps == {"get", "put", "patch", "delete"}

\* A request of client c is being handled or has just been answered.
Active(c) == pc[c] # "idle"

\* The request of client c was answered with a 400 and no statement was
\* passed to pool.query for it.
Refused(c) ==
    /\ pc[c] = "responded" /\ resp[c].status = 400
    /\ sent[c] = 0 /\ query[c] = NoStatement

\* A positive integer number, and a non-empty string.
PositiveInteger(v) ==
    v.t = "number" /\ ~v.n.nan /\ ~v.n.neg /\ v.n.ip # <<>> /\ v.n.fr = <<>>
NonEmptyString(v) == v.t = "string" /\ Len(v.s) > 0

\* The field is supplied: the body has the key.
Supplied(v) == v.t # "undefined"

\* The table has a row whose id is the number id.
HasRow(id) == \E k \in DOMAIN chamados : IntNum(k) = id
RowOf(id) == chamados[CHOOSE k \in DOMAIN chamados : IntNum(k) = id]

\* What the statement of client c gives if the store executes it now, and
\* the response the handler then sends.
ExecNow(c) == Exec(query[c], db, chamados, seq)
AnswerNow(c) == Continuation(variant, req[c].op, Settled(ExecNow(c)))

\* The value a column takes from a body field the store accepted: the text
\* of the value, for estado and the image as CHAR(1) and VARCHAR(255) hold
\* it (without the blanks beyond the length).
ColumnValue(v) == PgParam(v)
EstadoValue(v) == Char1(PgParam(v).txt)
ImageValue(v) == ImageStored(PgParam(v))

\* The ticket with the id as banco.sql inserts it.
Seeded(id) == Inserted[id]

\* ------------------------------------------------------------------------
\* C1
\* ------------------------------------------------------------------------

\* C1: GET, PUT, PATCH and DELETE on /api/chamados/:id with a malformed id
\* string (non-numeric, zero, negative, fractional) are answered 400 and pass
\* no statement to the store.
MalformedIdRefused ==
    \A c \in Clients :
        (Active(c) /\ req[c].op \in IdOps /\ req[c].id \in MalformedIdStrings)
        => Refused(c)

\* ------------------------------------------------------------------------
\* C2
\* ------------------------------------------------------------------------

\* C2: in every revision, a POST whose Usuarios_id is not a positive integer
\* number, or whose texto or estado is not a non-empty string, is answered
\* 400 and no INSERT is passed to the store.
CreateRefusesBadFields ==
    \A c \in Clients :
        (Active(c) /\ req[c].op = "post"
         /\ (\/ ~PositiveInteger(req[c].body.Usuarios_id)
             \/ ~NonEmptyString(req[c].body.texto)
             \/ ~NonEmptyString(req[c].body.estado)))
        => Refused(c)

\* ------------------------------------------------------------------------
\* C3
\* ------------------------------------------------------------------------

\* No id was given to two rows.
IssuedOnce == \A i, j \in 1..Len(issued) : issued[i] = issued[j] => i = j

\* C3 as stated: a POST that passed the handler's validation, the store
\* being reachable, is answered 201 with a row that carries the request's
\* values under an id no other row was given.
CreateValidReturns201 ==
    \A c \in Clients :
        (pc[c] = "responded" /\ req[c].op = "post" /\ sent[c] = 1
         /\ result[c].cause \notin OutsideCauses)
        => /\ IssuedOnce
           /\ resp[c].status = 201
           /\ Len(resp[c].rows) = 1
           /\ JsNum(IntNum(resp[c].rows[1].Usuarios_id)) = req[c].body.Usuarios_id
           /\ resp[c].rows[1].texto = req[c].body.texto.s
           /\ resp[c].rows[1].estado = req[c].body.estado.s

\* C3, amended: a POST that passed the handler's validation is answered 201
\* when the store accepts the INSERT and the query resolves, and 500 when
\* the query is rejected; an INSERT the store rejects stores no row; the
\* row of the 201 has the request's texto, its estado ('a' or 'f') without
\* blanks after it, the text of its image (at most 255 characters, blanks
\* beyond them cut) or null when the request has none, the integer its
\* Usuarios_id denotes, and an id that no other row was ever given, the
\* rows of banco.sql and deleted rows included.
CreateReturnsStoredRow ==
    /\ IssuedOnce
    /\ \A c \in Clients :
        (pc[c] = "awaiting" /\ req[c].op = "post")
        => IF ExecNow(c).err
           THEN AnswerNow(c).status = 500 /\ ExecNow(c).table = chamados
           ELSE /\ AnswerNow(c).status = 201
                /\ DOMAIN ExecNow(c).table
                     = DOMAIN chamados \cup {AnswerNow(c).rows[1].id}
                /\ ExecNow(c).table[AnswerNow(c).rows[1].id]
                     = AnswerNow(c).rows[1]
                /\ \A k \in DOMAIN chamados : ExecNow(c).table[k] = chamados[k]
    /\ \A c \in Clients :
        (pc[c] = "responded" /\ req[c].op = "post" /\ sent[c] = 1)
        => IF result[c].err THEN resp[c].status = 500 /\ resp[c].rows = <<>>
           ELSE LET b == req[c].body
                    row == resp[c].rows[1]
                IN /\ resp[c].status = 201
                   /\ Len(resp[c].rows) = 1
                   /\ IntNum(row.Usuarios_id) = ToNumber(b.Usuarios_id)
                   /\ row.texto = b.texto.s
                   /\ row.estado \in EstadosAdmitted
                   /\ row.estado = StripRight(b.estado.s, {" "})
                   /\ row.img = (IF b.img.t \in {"undefined", "null"}
                                 THEN SqlNull ELSE ImageValue(b.img))
                   /\ Len(row.img.txt) <= 255
                   /\ \E i \in 1..Len(issued) : issued[i] = row.id

\* A ticket was created after ticket 1 of banco.sql was deleted.
CreateAfterDeleteSeen ==
    /\ pc["c1"] = "responded" /\ req["c1"].op = "post"
    /\ resp["c1"].status = 201 /\ Len(issued) = Len(Inserted) + 1
    /\ issued[1] \notin DOMAIN chamados

\* ------------------------------------------------------------------------
\* C4 and C5
\* ------------------------------------------------------------------------

\* The field is supplied with a value other than null.
Given(v) == v.t \notin {"undefined", "null"}

\* Executing the statement of client c now changes no row but the one with
\* the key k, and adds and removes none.
OnlyRowChanges(c, k) ==
    /\ DOMAIN ExecNow(c).table = DOMAIN chamados
    /\ \A j \in DOMAIN chamados \ {k} : ExecNow(c).table[j] = chamados[j]

\* C4 as stated: a PATCH that is answered 200 sets each of the four columns
\* to the body's value, as the driver sends it, where the field is supplied
\* and not null, and leaves it at its stored value where the field is absent
\* or null.
PatchSetsBodyValues ==
    \A c \in Clients :
        (pc[c] = "awaiting" /\ req[c].op = "patch" /\ AnswerNow(c).status = 200)
        => /\ HasRow(query[c].id)
           /\ LET b == req[c].body
                  old == RowOf(query[c].id)
                  new == AnswerNow(c).rows[1]
              IN /\ new.id = old.id
                 /\ IF Given(b.Usuarios_id)
                    THEN IntNum(new.Usuarios_id) = ToNumber(b.Usuarios_id)
                    ELSE new.Usuarios_id = old.Usuarios_id
                 /\ new.texto = (IF Given(b.texto) THEN ColumnValue(b.texto).txt
                                 ELSE old.texto)
                 /\ new.estado = (IF Given(b.estado)
                                  THEN ColumnValue(b.estado).txt
                                  ELSE old.estado)
                 /\ new.img = (IF Given(b.img) THEN ColumnValue(b.img)
                               ELSE old.img)

\* C4, amended: a PATCH that is answered 200 sets each of the four columns
\* to the body's value as the column's type holds it (estado and the image
\* without the blanks beyond the column's length) where the field is
\* supplied and not null, and leaves it at its stored value where the field
\* is absent or null; no other row changes and the row returned is the row
\* stored.
PatchMerges ==
    \A c \in Clients :
        (pc[c] = "awaiting" /\ req[c].op = "patch" /\ AnswerNow(c).status = 200)
        => /\ HasRow(query[c].id)
           /\ LET b == req[c].body
                  old == RowOf(query[c].id)
                  new == AnswerNow(c).rows[1]
              IN /\ new.id = old.id
                 /\ ExecNow(c).table[old.id] = new
                 /\ OnlyRowChanges(c, old.id)
                 /\ IF Given(b.Usuarios_id)
                    THEN IntNum(new.Usuarios_id) = ToNumber(b.Usuarios_id)
                    ELSE new.Usuarios_id = old.Usuarios_id
                 /\ new.texto = (IF Given(b.texto) THEN ColumnValue(b.texto).txt
                                 ELSE old.texto)
                 /\ new.estado = (IF Given(b.estado) THEN EstadoValue(b.estado)
                                  ELSE old.estado)
                 /\ new.img = (IF Given(b.img) THEN ImageValue(b.img)
                               ELSE old.img)

\* The spec's scenario: ticket 1 of banco.sql, open, was patched with
\* {estado: "f"} alone and came back closed, its other fields as inserted.
PatchOneFieldSeen ==
    /\ pc["c1"] = "responded"
    /\ req["c1"] = Request("patch", <<"1">>,
                           Fields(JsUndef, JsUndef, Fechado, JsUndef))
    /\ Seeded(1).estado = <<"a">>
    /\ resp["c1"] = Response(200, "",
                             <<[Seeded(1) EXCEPT !.estado = <<"f">>]>>)

\* C5 as stated: a PUT that is answered 200 overwrites the four columns with
\* the body's values, as the driver sends them, whatever the row held.
PutSetsBodyValues ==
    \A c \in Clients :
        (pc[c] = "awaiting" /\ req[c].op = "put" /\ AnswerNow(c).status = 200)
        => /\ HasRow(query[c].id)
           /\ LET b == req[c].body
                  old == RowOf(query[c].id)
                  new == AnswerNow(c).rows[1]
              IN /\ new.id = old.id
                 /\ ExecNow(c).table[old.id] = new
                 /\ IntNum(new.Usuarios_id) = ToNumber(b.Usuarios_id)
                 /\ new.texto = ColumnValue(b.texto).txt
                 /\ new.estado = ColumnValue(b.estado).txt
                 /\ new.img = ColumnValue(b.img)

\* C5, amended: a PUT that is answered 200 overwrites the four columns with
\* the body's values as the column's type holds them (estado and the image
\* without the blanks beyond the column's length), whatever the row held;
\* no other row changes and the row returned is the row stored.
PutOverwrites ==
    \A c \in Clients :
        (pc[c] = "awaiting" /\ req[c].op = "put" /\ AnswerNow(c).status = 200)
        => /\ HasRow(query[c].id)
           /\ LET b == req[c].body
                  old == RowOf(query[c].id)
                  new == AnswerNow(c).rows[1]
              IN /\ new.id = old.id
                 /\ ExecNow(c).table[old.id] = new
                 /\ OnlyRowChanges(c, old.id)
                 /\ IntNum(new.Usuarios_id) = ToNumber(b.Usuarios_id)
                 /\ new.texto = ColumnValue(b.texto).txt
                 /\ new.estado = EstadoValue(b.estado)
                 /\ new.img = ImageValue(b.img)

\* A PUT of Body2, which has a null image, on ticket 1 of banco.sql, which
\* has an image, was answered 200 by server.js with the row of Body2.
PutSeen ==
    /\ variant = "server" /\ pc["c1"] = "responded"
    /\ req["c1"] = Request("put", <<"1">>, Body2)
    /\ ~Seeded(1).img.null
    /\ resp["c1"] = Response(200, "",
                             <<Row(1, 2, <<"t", "2">>, <<"f">>, SqlNull)>>)

\* ------------------------------------------------------------------------
\* C6 and C7
\* ------------------------------------------------------------------------

\* The response to a GET of the id of client c's request once that
\* client's statement has been executed.
GetAfter(c) ==
    LET out == ExecNow(c)
        get == Exec(Handler(variant, Request("get", NumToString(query[c].id),
                                             NoBody)).query,
                    db, out.table, out.seq)
    IN Continuation(variant, "get", Settled(get))

\* C6: a DELETE of an id that has a row is answered 204 without a body and
\* removes that row and no other, after which a GET of the id is answered
\* 404; a DELETE of an id that has no row is answered 404.
DeleteAnswers ==
    \A c \in Clients :
        (pc[c] = "awaiting" /\ req[c].op = "delete")
        => IF HasRow(query[c].id)
           THEN /\ AnswerNow(c) = Response(204, "", <<>>)
                /\ DOMAIN ExecNow(c).table
                     = DOMAIN chamados \ {RowOf(query[c].id).id}
                /\ \A k \in DOMAIN ExecNow(c).table :
                       ExecNow(c).table[k] = chamados[k]
                /\ GetAfter(c).status = 404
           ELSE AnswerNow(c).status = 404

\* The body's Usuarios_id, where it has one, is a positive integer.
UidWellFormed(b) == Given(b.Usuarios_id) => PositiveInteger(b.Usuarios_id)

\* C7: GET, PUT, PATCH and DELETE of an id that passed the id validation and
\* has no row, the body of a PUT or PATCH having passed its validation with
\* a Usuarios_id that is a positive integer, are answered 404 and leave the
\* table as it is.
UnknownIdAnswers404 ==
    \A c \in Clients :
        (pc[c] = "awaiting" /\ req[c].op \in IdOps /\ ~HasRow(query[c].id)
         /\ UidWellFormed(req[c].body))
        => /\ AnswerNow(c).status = 404
           /\ ExecNow(c).table = chamados

\* ------------------------------------------------------------------------
\* C8 and C9
\* ------------------------------------------------------------------------

\* C8: in every revision, a PATCH whose body supplies none of Usuarios_id,
\* texto, estado and the image field is answered 400 and passes no statement
\* to the store.
PatchRefusesNoFields ==
    \A c \in Clients :
        (Active(c) /\ req[c].op = "patch"
         /\ ~Supplied(req[c].body.Usuarios_id) /\ ~Supplied(req[c].body.texto)
         /\ ~Supplied(req[c].body.estado) /\ ~Supplied(req[c].body.img))
        => Refused(c)

\* C9: in every revision, a PATCH that supplies a Usuarios_id which is not a
\* positive integer is answered 400 and passes no statement to the store.
PatchRefusesBadUid ==
    \A c \in Clients :
        (Active(c) /\ req[c].op = "patch"
         /\ Supplied(req[c].body.Usuarios_id)
         /\ ~PositiveInteger(req[c].body.Usuarios_id))
        => Refused(c)

\* ------------------------------------------------------------------------
\* C10
\* ------------------------------------------------------------------------

AllCauses == OutsideCauses \cup {"statement"}

\* C10: a request whose query was rejected is answered 500 with a body that
\* is the same for every cause of the rejection.
StoreFailureUniform ==
    \A c \in Clients :
        (pc[c] = "responded" /\ result[c].err)
        => /\ resp[c].status = 500
           /\ resp[c].rows = <<>>
           /\ \A cause \in AllCauses :
                  Continuation(variant, req[c].op, Rejected(cause)) = resp[c]

\* server.js answered a POST 500 because the CHECK on estado rejected the
\* row (estado "x").
StoreFailureSeen ==
    /\ variant = "server" /\ pc["c1"] = "responded"
    /\ req["c1"].op = "post" /\ req["c1"].body.estado = JsStr(<<"x">>)
    /\ result["c1"] = Rejected("statement")
    /\ resp["c1"].status = 500

\* ------------------------------------------------------------------------
\* C11
\* ------------------------------------------------------------------------

\* C11 as stated: a request passes at most one statement to pool.query:
\* none when it is answered 400, exactly one when it is answered with any
\* other status, a 500 after a rejected query included.
EveryRequestOneStatement ==
    \A c \in Clients :
        /\ sent[c] <= 1
        /\ sent[c] = 0 <=> query[c] = NoStatement
        /\ pc[c] = "responded" =>
             IF resp[c].status = 400 THEN sent[c] = 0 ELSE sent[c] = 1
        /\ pc[c] \in {"awaiting", "settled"} => sent[c] = 1

\* C11, amended: a request passes at most one statement to pool.query: GET /
\* passes none, and a request to one of the six operations on /api/chamados
\* passes none when it is answered 400 and exactly one when it is answered
\* with any other status, a 500 after a rejected query included.
OneStatementPerRequest ==
    \A c \in Clients :
        /\ sent[c] <= 1
        /\ sent[c] = 0 <=> query[c] = NoStatement
        /\ pc[c] = "responded" =>
             IF req[c].op = "index" \/ resp[c].status = 400
             THEN sent[c] = 0 ELSE sent[c] = 1
        /\ pc[c] \in {"awaiting", "settled"} => sent[c] = 1

\* A request whose query was rejected from outside was answered 500 with one
\* statement passed.
FailedOnceSeen ==
    /\ pc["c1"] = "responded" /\ resp["c1"].status = 500
    /\ result["c1"] = Rejected("timeout") /\ sent["c1"] = 1

\* ------------------------------------------------------------------------
\* C12
\* ------------------------------------------------------------------------

\* The response to GET /api/chamados/<id> for the row id, the store
\* executing its statement on the table as it is now.
GetNow(id) ==
    Continuation(variant, "get",
        Settled(Exec(Handler(variant, Request("get", NatDigits(id), NoBody)).query,
                     db, chamados, seq)))

\* C12: when a POST has been answered 201, a GET of the id of the row it
\* returned is answered 200 with that same row.
GetReturnsCreatedRow ==
    \A c \in Clients :
        (pc[c] = "responded" /\ req[c].op = "post" /\ resp[c].status = 201)
        => GetNow(resp[c].rows[1].id) = Response(200, "", resp[c].rows)

\* A second ticket was created, with values other than the first's.
SecondCreatedSeen ==
    /\ pc["c1"] = "responded" /\ req["c1"].op = "post"
    /\ resp["c1"].status = 201
    /\ resp["c1"].rows[1].id = Len(Inserted) + 2
    /\ Len(Inserted) + 1 \in DOMAIN chamados
    /\ chamados[Len(Inserted) + 1].texto # resp["c1"].rows[1].texto

\* ------------------------------------------------------------------------
\* C13
\* ------------------------------------------------------------------------

\* C13: a list whose query the store executes is answered 200 with the rows
\* of the table at that moment, each once, in strictly descending order of
\* id, and the table stays as it is.
ListReturnsAllDescending ==
    \A c \in Clients :
        (pc[c] = "awaiting" /\ req[c].op = "list")
        => LET rows == AnswerNow(c).rows
           IN /\ AnswerNow(c).status = 200
              /\ Len(rows) = Cardinality(DOMAIN chamados)
              /\ \A k \in DOMAIN chamados :
                     \E i \in 1..Len(rows) : rows[i] = chamados[k]
              /\ \A i \in 1..Len(rows) :
                     rows[i].id \in DOMAIN chamados
                     /\ rows[i] = chamados[rows[i].id]
              /\ \A i, j \in 1..Len(rows) : i < j => rows[i].id > rows[j].id
              /\ ExecNow(c).table = chamados
              /\ ExecNow(c).seq = seq

\* A list was answered with the rows of banco.sql and, first, a row created
\* since.
ListOfTwoSeen ==
    /\ pc["c1"] = "responded" /\ req["c1"].op = "list"
    /\ resp["c1"].status = 200
    /\ Len(resp["c1"].rows) = Len(Inserted) + 1
    /\ resp["c1"].rows[1].id = Len(Inserted) + 1

\* ------------------------------------------------------------------------
\* C14
\* ------------------------------------------------------------------------

\* C14: in every revision, a POST whose Usuarios_id is a positive integer,
\* whose texto and estado are non-empty strings and whose image is absent or
\* null is not answered 400, and the row its INSERT stores has a NULL image.
CreateImageOptional ==
    \A c \in Clients :
        (Active(c) /\ req[c].op = "post"
         /\ PositiveInteger(req[c].body.Usuarios_id)
         /\ NonEmptyString(req[c].body.texto)
         /\ NonEmptyString(req[c].body.estado)
         /\ ~Given(req[c].body.img))
        => /\ ~Refused(c)
           /\ (pc[c] = "awaiting" /\ ~ExecNow(c).err)
                  => ExecNow(c).rows[1].img = SqlNull

\* ------------------------------------------------------------------------
\* Concurrent requests
\* ------------------------------------------------------------------------

\* The handlers of the two clients interleave at their awaits: between the
\* two synchronous parts of one request, the other client's parts and the
\* store's execution of either statement may take place.
NextConcurrent ==
    \/ \E c \in Clients : \E r \in ConcurrentRequests : Receive(c, r)
    \/ \E c \in Clients : StoreExec(c)
    \/ \E c \in Clients : \E cause \in OutsideCauses :
           \E executed \in BOOLEAN : StoreFail(c, cause, executed)
    \/ \E c \in Clients : Resume(c)
    \/ \E c \in Clients : Finish(c)

SpecConcurrent == Init /\ [][NextConcurrent]_vars

\* ------------------------------------------------------------------------
\* C15
\* ------------------------------------------------------------------------

\* The store accepts the four values of the body: Usuarios_id is the id of
\* a user, estado is 'a' or 'f' (blanks may follow), texto is not null and
\* the image has at most 255 characters before its trailing blanks.
StoreAccepts(b) ==
    /\ PositiveInteger(b.Usuarios_id)
    /\ \E k \in UsuariosIds : IntNum(k) = b.Usuarios_id.n
    /\ b.estado.t = "string"
    /\ StripRight(b.estado.s, {" "}) \in EstadosAdmitted
    /\ Given(b.texto)
    /\ Given(b.img) => Len(StripRight(ColumnValue(b.img).txt, {" "})) <= 255

\* The row with the id that holds the four values of an accepted body.
BodyRow(id, b) ==
    Row(id, CHOOSE k \in UsuariosIds : IntNum(k) = b.Usuarios_id.n,
        ColumnValue(b.texto).txt, EstadoValue(b.estado), ImageValue(b.img))

\* The PUT of client c was executed by the store and changed a row.
PutDone(c) ==
    /\ pc[c] \in {"settled", "responded"} /\ req[c].op = "put"
    /\ ~result[c].err /\ result[c].rowCount = 1

\* C15 as stated: of two PUTs in flight on the same existing ticket, each
\* with a body that passed the validation and a Usuarios_id that is a
\* positive integer, the store executing both, each is answered 200 and
\* leaves the row with exactly its own body's values.
ConcurrentPutsReturn200 ==
    \A c \in Clients :
        (pc[c] = "awaiting" /\ req[c].op = "put" /\ HasRow(query[c].id)
         /\ UidWellFormed(req[c].body))
        => /\ AnswerNow(c).status = 200
           /\ ExecNow(c).table[RowOf(query[c].id).id]
                = BodyRow(RowOf(query[c].id).id, req[c].body)

\* C15, amended: a PUT on an existing ticket whose statement the store
\* executes while another request is in flight is answered 200 when the
\* store accepts its body, and then leaves the row with exactly its own
\* body's four values as the columns hold them, whatever the other request
\* wrote before; when the store rejects it, it is answered 500 and the row
\* stays as it was.  After two PUTs on the ticket have both been executed
\* and answered 200, the row holds the four values of one of the two
\* bodies, never a mix.
LastPutWins ==
    /\ \A c \in Clients :
        (pc[c] = "awaiting" /\ req[c].op = "put" /\ HasRow(query[c].id))
        => LET id == RowOf(query[c].id).id IN
           /\ StoreAccepts(req[c].body) => ~ExecNow(c).err
           /\ IF ExecNow(c).err
              THEN AnswerNow(c).status = 500 /\ ExecNow(c).table = chamados
              ELSE /\ AnswerNow(c) = Response(200, "",
                                              <<ExecNow(c).table[id]>>)
                   /\ StoreAccepts(req[c].body)
                        => ExecNow(c).table[id] = BodyRow(id, req[c].body)
                   /\ OnlyRowChanges(c, id)
    /\ \A c, d \in Clients :
        (c # d /\ PutDone(c) /\ PutDone(d) /\ query[c].id = query[d].id
         /\ StoreAccepts(req[c].body) /\ StoreAccepts(req[d].body))
        => LET id == result[c].rows[1].id IN
           /\ id \in DOMAIN chamados
           /\ chamados[id] \in {BodyRow(id, req[c].body),
                                BodyRow(id, req[d].body)}

\* Two PUTs of different bodies on ticket 1 were both executed while both
\* requests were open, the first answered 200 already, and the row holds
\* the values of the second.
TwoPutsSeen ==
    /\ PutDone("c1") /\ PutDone("c2")
    /\ req["c1"].body = Body1 /\ req["c2"].body = Body2
    /\ pc["c1"] = "settled" /\ pc["c2"] = "responded"
    /\ resp["c2"].status = 200
    /\ chamados[1] = BodyRow(1, Body1)

\* ------------------------------------------------------------------------
\* C16
\* ------------------------------------------------------------------------

\* C16: the texto of every stored ticket is a non-empty string.
TextoNeverEmpty == \A k \in DOMAIN chamados : chamados[k].texto # <<>>

\* ------------------------------------------------------------------------
\* C17
\* ------------------------------------------------------------------------

NextFair ==
    \/ \E c \in Clients : \E r \in FairRequests : Receive(c, r)
    \/ \E c \in Clients : StoreExec(c)
    \/ \E c \in Clients : \E cause \in OutsideCauses :
           \E executed \in BOOLEAN : StoreFail(c, cause, executed)
    \/ \E c \in Clients : Resume(c)
    \/ \E c \in Clients : Finish(c)

\* The event loop runs the continuation of every settled query: Resume is
\* weakly fair.  The store owes nothing: a query may stay pending for ever.
FairSpec ==
    Init /\ [][NextFair]_vars /\ \A c \in Clients : WF_vars(Resume(c))

\* While the query of a request is pending the request has no response, and
\* a pending query of one client leaves the continuation of the other
\* client's settled query able to run.
PendingUnanswered ==
    \A c \in Clients :
        pc[c] = "awaiting"
        => /\ resp[c] = NoResponse
           /\ \A d \in Clients \ {c} : pc[d] = "settled" => ENABLED Resume(d)

\* A response, once sent, stays as it is until the request is over.
OneResponse ==
    \A c \in Clients :
        resp[c] # NoResponse
        => (resp'[c] = resp[c] \/ (resp'[c] = NoResponse /\ pc'[c] = "idle"))

\* C17: under fair scheduling, a request whose query has settled, with rows
\* or with an error, is eventually answered, whatever the other client's
\* query does; a request is answered once; and a request whose query is
\* pending is not answered.
SettledAnswered ==
    /\ \A c \in Clients : (pc[c] = "settled") ~> (pc[c] = "responded")
    /\ [][OneResponse]_vars
    /\ []PendingUnanswered

\* One client's query is pending while the other client, whose query was
\* settled, has its response.
AnsweredBesidePendingSeen ==
    /\ pc["c1"] = "awaiting" /\ query["c1"].kind = "insert"
    /\ pc["c2"] = "responded" /\ sent["c2"] = 1
    /\ req["c2"].op = "get" /\ resp["c2"].status = 200

\* ------------------------------------------------------------------------
\* C18
\* ------------------------------------------------------------------------

UpdatableFields == {"Usuarios_id", "texto", "estado", "img"}

\* The two bodies give no field in common.
DisjointFields(b1, b2) ==
    \A f \in UpdatableFields : ~(Given(b1[f]) /\ Given(b2[f]))

\* The store accepts the values the body gives.
StoreAcceptsGiven(b) ==
    /\ Given(b.Usuarios_id)
         => /\ PositiveInteger(b.Usuarios_id)
            /\ \E k \in UsuariosIds : IntNum(k) = b.Usuarios_id.n
    /\ Given(b.estado)
         => /\ b.estado.t = "string"
            /\ StripRight(b.estado.s, {" "}) \in EstadosAdmitted
    /\ Given(b.img) => Len(StripRight(ColumnValue(b.img).txt, {" "})) <= 255

\* The row carries the values the body gives.
CarriesGiven(row, b) ==
    /\ Given(b.Usuarios_id) => IntNum(row.Usuarios_id) = b.Usuarios_id.n
    /\ Given(b.texto) => row.texto = ColumnValue(b.texto).txt
    /\ Given(b.estado) => row.estado = EstadoValue(b.estado)
    /\ Given(b.img) => row.img = ImageValue(b.img)

\* The row has, in the fields neither body gives, the values of old.
KeepsOthers(row, old, b1, b2) ==
    /\ ~(Given(b1.Usuarios_id) \/ Given(b2.Usuarios_id))
         => row.Usuarios_id = old.Usuarios_id
    /\ ~(Given(b1.texto) \/ Given(b2.texto)) => row.texto = old.texto
    /\ ~(Given(b1.estado) \/ Given(b2.estado)) => row.estado = old.estado
    /\ ~(Given(b1.img) \/ Given(b2.img)) => row.img = old.img

\* The PATCH of client c was executed by the store and changed a row.
PatchDone(c) ==
    /\ pc[c] \in {"settled", "responded"} /\ req[c].op = "patch"
    /\ ~result[c].err /\ result[c].rowCount = 1

\* Two PATCHes of c and d are on the same ticket, with values in disjoint
\* fields.
DisjointPatches(c, d) ==
    /\ c # d /\ req[c].op = "patch" /\ req[d].op = "patch"
    /\ query[c].id = query[d].id
    /\ DisjointFields(req[c].body, req[d].body)

\* C18 as stated: two PATCHes in flight on the same existing ticket that
\* give values in disjoint fields both take effect, in either order of
\* execution: the row then carries the values of both.
DisjointPatchesAlwaysApply ==
    \A c, d \in Clients :
        (DisjointPatches(c, d) /\ pc[c] = "awaiting" /\ pc[d] = "awaiting"
         /\ HasRow(query[c].id))
        => LET old == RowOf(query[c].id)
               first == Exec(query[c], db, chamados, seq)
               second == Exec(query[d], db, first.table, first.seq)
           IN /\ CarriesGiven(second.table[old.id], req[c].body)
              /\ CarriesGiven(second.table[old.id], req[d].body)

\* C18, amended: two PATCHes in flight on the same existing ticket that
\* give values the store accepts in disjoint fields both take effect, in
\* either order of execution: both are answered 200 and the row then
\* carries the values of both as the columns hold them, its other fields as
\* they were.
DisjointPatchesBothApply ==
    \A c, d \in Clients :
        /\ (DisjointPatches(c, d) /\ pc[c] = "awaiting" /\ pc[d] = "awaiting"
            /\ StoreAcceptsGiven(req[c].body) /\ StoreAcceptsGiven(req[d].body)
            /\ HasRow(query[c].id))
           => LET old == RowOf(query[c].id)
                  first == Exec(query[c], db, chamados, seq)
                  second == Exec(query[d], db, first.table, first.seq)
              IN /\ ~first.err /\ ~second.err
                 /\ Continuation(variant, "patch", Settled(first)).status = 200
                 /\ Continuation(variant, "patch", Settled(second))
                      = Response(200, "", <<second.table[old.id]>>)
                 /\ CarriesGiven(second.table[old.id], req[c].body)
                 /\ CarriesGiven(second.table[old.id], req[d].body)
                 /\ KeepsOthers(second.table[old.id], old,
                                req[c].body, req[d].body)
        /\ (DisjointPatches(c, d) /\ PatchDone(c) /\ pc[d] = "awaiting"
            /\ StoreAcceptsGiven(req[c].body) /\ StoreAcceptsGiven(req[d].body)
            /\ HasRow(query[d].id)
            /\ CarriesGiven(RowOf(query[d].id), req[c].body))
           => /\ AnswerNow(d).status = 200
              /\ CarriesGiven(AnswerNow(d).rows[1], req[c].body)
              /\ CarriesGiven(AnswerNow(d).rows[1], req[d].body)
              /\ ExecNow(d).table[RowOf(query[d].id).id] = AnswerNow(d).rows[1]

\* Ticket 1 of banco.sql was patched by one client with a texto and by the
\* other with an estado, both requests open, and carries both.
TwoPatchesSeen ==
    /\ PatchDone("c1") /\ PatchDone("c2")
    /\ req["c1"].body = Fields(JsUndef, Texto2, JsUndef, JsUndef)
    /\ req["c2"].body = Fields(JsUndef, JsUndef, Fechado, JsUndef)
    /\ resp["c2"].status = 200 /\ pc["c1"] = "settled"
    /\ chamados[1] = [Seeded(1) EXCEPT !.texto = <<"t", "2">>,
                                       !.estado = <<"f">>]

\* ------------------------------------------------------------------------
\* C19
\* ------------------------------------------------------------------------

\* The ids of the tickets that were deleted: given to a row once, by
\* banco.sql or by an INSERT since, and rows leave the table by DELETE only.
DeletedIds == {issued[i] : i \in 1..Len(issued)} \ DOMAIN chamados

\* The request of client c is on a deleted ticket and its statement is
\* about to be executed.
OnDeleted(c) ==
    /\ pc[c] = "awaiting" /\ req[c].op \in IdOps
    /\ \E n \in DeletedIds : query[c].id = IntNum(n)

\* Executing the statement of client c leaves every deleted ticket absent,
\* and an INSERT gives its row an id no row was given before.
NoneRevived(c) ==
    /\ DeletedIds \cap DOMAIN ExecNow(c).table = {}
    /\ (query[c].kind = "insert" /\ ~ExecNow(c).err)
         => \A i \in 1..Len(issued) : ExecNow(c).rows[1].id # issued[i]

\* C19: a deleted ticket never exists again, whatever statement is executed
\* next, and a GET, PUT, PATCH or DELETE on its id whose statement is
\* executed after the delete, the request having been in flight before it
\* or not, is answered 404.
DeletedStaysGone ==
    \A c \in Clients :
        /\ pc[c] = "awaiting" => NoneRevived(c)
        /\ OnDeleted(c) => AnswerNow(c).status = 404

====
